---- MODULE Spec2Model ----
(***************************************************************************)
(* Document Understanding Pipeline of 06_Nanonets: the document            *)
(* classifier, the language detector, the field extractor and the          *)
(* structured-output processor, as state machines over texts that are      *)
(* sequences of characters.                                                *)
(*                                                                         *)
(* A text is a sequence of one-character strings.  Scores are Python       *)
(* floats in the source; here they are exact fractions [n, d] (d > 0),     *)
(* compared by cross-multiplication.                                       *)
(***************************************************************************)
EXTENDS Integers, Sequences, FiniteSets, TLC

VARIABLES
    classifyText,     \* the text handed to DocumentClassifier.classify
    classifyResult,   \* its ClassificationResult, NoResult before the call
    routingResult,    \* what classify_with_routing returns for the text
    detectText,       \* the text handed to LanguageDetector.detect
    detectResult,     \* its LanguageDetectionResult, NoResult before the call
    scriptText,       \* the text handed to LanguageDetector._detect_script
    scriptResult,     \* the script it returns, NoResult before the call
    self_fields,         \* FieldExtractor.fields
    self_custom_fields,  \* FieldExtractor._custom_fields
    firstExtract,     \* the first call of extract: its arguments and its result
    lastExtract,      \* the latest call of extract: its arguments and its result
    statsResults,     \* the result map handed to FieldExtractor.get_statistics
    statistics,       \* the statistics it returns, NoResult before the call
    firstProcess,     \* the first call of process: its arguments and its result
    lastProcess,      \* the latest call of process: its arguments and its result
    singleton,        \* the globals _classifier and _language_detector: 0 is None
    constructed,      \* the instances constructed so far, of each class
    thread,           \* each thread: the getter it runs, where it is, its instance
    returned,         \* the instances the calls of each getter have returned
    heap,             \* the mutable objects: of each its owner and its value
    self,             \* the attributes of the components: the objects they refer to
    configured,       \* the field_config the extractor was constructed with
    calls,            \* the number of calls made to the components
    lastCall,         \* the latest call: its arguments and the objects of its result
    parseText,        \* the text handed to OutputParser.extract_tables
    tablesResult,     \* the two lists it returns, NoResult before the call
    pagesResult,      \* the pages OutputParser.parse returns, NoResult before
    equationsResult,  \* the list extract_equations returns, NoResult before
    _api_client,      \* the module's global client: None, or a reference
                      \* [id |-> i] to the instance clients[i]
    clients,          \* the OCRAPIClient instances made so far, in creation order
    environ,          \* the process environment: API_BASE_URL and API_KEY
    getCalls,         \* the get_api_client calls so far, with what each returned
    requests,         \* the POST /ocr calls: where each is, and how it ended
    tmpFiles,         \* the temporary files that exist
    fieldText,        \* the text handed to FieldExtractor._extract_field
    fieldName,        \* the field name handed to it
    fieldValue,       \* the value it returns, NoResult before the call
    sanitizeName,     \* the filename handed to sanitize_filename
    sanitizeResult,   \* the filename it returns, NoResult before the call
    schemaArg,        \* the schema handed to SchemaExtractor.validate_schema
    schemaValid       \* the boolean it returns, NoResult before the call

vars == <<classifyText, classifyResult, routingResult, detectText, detectResult,
          scriptText, scriptResult,
          self_fields, self_custom_fields, firstExtract, lastExtract,
          statsResults, statistics, firstProcess, lastProcess,
          singleton, constructed, thread, returned,
          heap, self, configured, calls, lastCall,
          parseText, tablesResult, pagesResult, equationsResult, _api_client,
          clients, environ, getCalls, requests, tmpFiles, fieldText, fieldName, fieldValue,
          sanitizeName, sanitizeResult, schemaArg, schemaValid>>

classifierVars == <<classifyText, classifyResult, routingResult>>
detectorVars == <<detectText, detectResult, scriptText, scriptResult>>
extractorVars == <<self_fields, self_custom_fields, firstExtract, lastExtract,
                   statsResults, statistics>>
processorVars == <<firstProcess, lastProcess>>
singletonVars == <<singleton, constructed, thread, returned>>
heapVars == <<heap, self, configured, calls, lastCall>>
parserVars == <<parseText, tablesResult, pagesResult, equationsResult>>
clientVars == <<_api_client, clients, environ, getCalls>>
ocrVars == <<requests, tmpFiles>>
fieldVars == <<fieldText, fieldName, fieldValue>>
validatorVars == <<sanitizeName, sanitizeResult>>
schemaVars == <<schemaArg, schemaValid>>

\* The number of vocabulary fragments a modelled input text is made of.
MaxFrags == 2

\* The number of entries of a result map handed to get_statistics.
MaxFields == 16

\* The number of threads that call the singleton getters.
MaxThreads == 2

\* The number of calls made to the components that share one heap.
MaxCalls == 2

\* The number of fragments a filename handed to sanitize_filename is made of.
MaxNameFrags == 3

\* The number of field keys a schema handed to validate_schema is made of.
MaxSchemaFields == 3
MaxGets == 3

\* The number of POST /ocr calls, which may be in progress together.
MaxRequests == 2

NoResult == [called |-> FALSE]

\* The element of a one-element set.  The({F(x) : x \in {e}}) is F(e) with e
\* evaluated once.
The(S) == CHOOSE x \in S : TRUE

-----------------------------------------------------------------------------
(* Characters *)

\* The characters a modelled text is made of; a character outside ASCII is named by its code point.
Alphabet ==
    {"a", "b", "c", "d", "e", "f", "g", "h", "i", "j", "k", "l", "m", "n", "o", "p", "q",
     "r", "s", "t", "u", "v", "w", "x", "y", "z", "A", "B", "C", "D", "E", "F", "G", "H",
     "I", "J", "K", "L", "M", "N", "O", "P", "Q", "R", "S", "T", "U", "V", "W", "X", "Y",
     "Z", "0", "1", "2", "3", "4", "5", "6", "7", "8", "9", " ", "\n", "\t", "#", "$", ":",
     "-", ",", ".", "(", ")", "[", "]", "_", "'", "/", "@", "?", "!", "%", "u00F1",
     "u00D1", "u00BF", "u00E3", "u00C3", "u0438", "u0418", "u043D", "u0435", "u0442",
     "u0915", "u093E", "u092E", "u092F", "u0939", "u0948", "u7684", "u6211", "u306E",
     "u30AB", "uC774", "u0645", "u0646", "u0E17", "u0E35", "u0E48", "u05D0", "u03B1",
     "<", ">", "u2610", "u2611", "\\", "u0000", "|", "*", "\"", "=", "^", "+"}

\* ord(c) of each character of the alphabet.
CodePoint ==
    ("a" :> 97) @@ ("b" :> 98) @@ ("c" :> 99) @@ ("d" :> 100) @@ ("e" :> 101) @@
    ("f" :> 102) @@ ("g" :> 103) @@ ("h" :> 104) @@ ("i" :> 105) @@ ("j" :> 106) @@
    ("k" :> 107) @@ ("l" :> 108) @@ ("m" :> 109) @@ ("n" :> 110) @@ ("o" :> 111) @@
    ("p" :> 112) @@ ("q" :> 113) @@ ("r" :> 114) @@ ("s" :> 115) @@ ("t" :> 116) @@
    ("u" :> 117) @@ ("v" :> 118) @@ ("w" :> 119) @@ ("x" :> 120) @@ ("y" :> 121) @@
    ("z" :> 122) @@ ("A" :> 65) @@ ("B" :> 66) @@ ("C" :> 67) @@ ("D" :> 68) @@
    ("E" :> 69) @@ ("F" :> 70) @@ ("G" :> 71) @@ ("H" :> 72) @@ ("I" :> 73) @@
    ("J" :> 74) @@ ("K" :> 75) @@ ("L" :> 76) @@ ("M" :> 77) @@ ("N" :> 78) @@
    ("O" :> 79) @@ ("P" :> 80) @@ ("Q" :> 81) @@ ("R" :> 82) @@ ("S" :> 83) @@
    ("T" :> 84) @@ ("U" :> 85) @@ ("V" :> 86) @@ ("W" :> 87) @@ ("X" :> 88) @@
    ("Y" :> 89) @@ ("Z" :> 90) @@ ("0" :> 48) @@ ("1" :> 49) @@ ("2" :> 50) @@
    ("3" :> 51) @@ ("4" :> 52) @@ ("5" :> 53) @@ ("6" :> 54) @@ ("7" :> 55) @@
    ("8" :> 56) @@ ("9" :> 57) @@ (" " :> 32) @@ ("\n" :> 10) @@ ("\t" :> 9) @@
    ("#" :> 35) @@ ("$" :> 36) @@ (":" :> 58) @@ ("-" :> 45) @@ ("," :> 44) @@
    ("." :> 46) @@ ("(" :> 40) @@ (")" :> 41) @@ ("[" :> 91) @@ ("]" :> 93) @@
    ("_" :> 95) @@ ("'" :> 39) @@ ("/" :> 47) @@ ("@" :> 64) @@ ("?" :> 63) @@
    ("!" :> 33) @@ ("%" :> 37) @@ ("u00F1" :> 241) @@ ("u00D1" :> 209) @@
    ("u00BF" :> 191) @@ ("u00E3" :> 227) @@ ("u00C3" :> 195) @@ ("u0438" :> 1080) @@
    ("u0418" :> 1048) @@ ("u043D" :> 1085) @@ ("u0435" :> 1077) @@ ("u0442" :> 1090) @@
    ("u0915" :> 2325) @@ ("u093E" :> 2366) @@ ("u092E" :> 2350) @@ ("u092F" :> 2351) @@
    ("u0939" :> 2361) @@ ("u0948" :> 2376) @@ ("u7684" :> 30340) @@ ("u6211" :> 25105) @@
    ("u306E" :> 12398) @@ ("u30AB" :> 12459) @@ ("uC774" :> 51060) @@ ("u0645" :> 1605) @@
    ("u0646" :> 1606) @@ ("u0E17" :> 3607) @@ ("u0E35" :> 3637) @@ ("u0E48" :> 3656) @@
    ("u05D0" :> 1488) @@ ("u03B1" :> 945) @@ ("<" :> 60) @@ (">" :> 62) @@
    ("u2610" :> 9744) @@ ("u2611" :> 9745) @@ ("\\" :> 92) @@ ("u0000" :> 0) @@
    ("|" :> 124) @@ ("*" :> 42) @@ ("\"" :> 34) @@ ("=" :> 61) @@ ("^" :> 94) @@
    ("+" :> 43)

\* \s: the whitespace characters.
Space ==
    {" ", "\n", "\t"}

\* \d: the decimal digits.
Digit ==
    {"0", "1", "2", "3", "4", "5", "6", "7", "8", "9"}

\* \w: alphanumeric characters and the underscore; the combining signs u093E, u0948, u0E35, u0E48 are not.
Word ==
    {"a", "b", "c", "d", "e", "f", "g", "h", "i", "j", "k", "l", "m", "n", "o", "p", "q",
     "r", "s", "t", "u", "v", "w", "x", "y", "z", "A", "B", "C", "D", "E", "F", "G", "H",
     "I", "J", "K", "L", "M", "N", "O", "P", "Q", "R", "S", "T", "U", "V", "W", "X", "Y",
     "Z", "0", "1", "2", "3", "4", "5", "6", "7", "8", "9", "_", "u00F1", "u00D1", "u00E3",
     "u00C3", "u0438", "u0418", "u043D", "u0435", "u0442", "u0915", "u092E", "u092F",
     "u0939", "u7684", "u6211", "u306E", "u30AB", "uC774", "u0645", "u0646", "u0E17",
     "u05D0", "u03B1"}

\* str.lower() on the characters it changes.
LowerOf ==
    ("A" :> "a") @@ ("B" :> "b") @@ ("C" :> "c") @@ ("D" :> "d") @@ ("E" :> "e") @@
    ("F" :> "f") @@ ("G" :> "g") @@ ("H" :> "h") @@ ("I" :> "i") @@ ("J" :> "j") @@
    ("K" :> "k") @@ ("L" :> "l") @@ ("M" :> "m") @@ ("N" :> "n") @@ ("O" :> "o") @@
    ("P" :> "p") @@ ("Q" :> "q") @@ ("R" :> "r") @@ ("S" :> "s") @@ ("T" :> "t") @@
    ("U" :> "u") @@ ("V" :> "v") @@ ("W" :> "w") @@ ("X" :> "x") @@ ("Y" :> "y") @@
    ("Z" :> "z") @@ ("u00D1" :> "u00F1") @@ ("u00C3" :> "u00E3") @@ ("u0418" :> "u0438")

ToLower(c) == IF c \in DOMAIN LowerOf THEN LowerOf[c] ELSE c

\* str.lower()
Lower(text) == [i \in 1..Len(text) |-> ToLower(text[i])]

\* The characters '.' matches: all but the line break.
AnyChar == Alphabet \ {"\n"}

\* A character range [lo-hi] of a regular expression, by code point.
InRange(lo, hi) == {c \in Alphabet : CodePoint[c] >= lo /\ CodePoint[c] <= hi}

-----------------------------------------------------------------------------
(* Fractions *)

Frac(n, d) == [n |-> n, d |-> d]
FLt(a, b) == a.n * b.d < b.n * a.d
FLe(a, b) == a.n * b.d <= b.n * a.d
FEq(a, b) == a.n * b.d = b.n * a.d
FGt(a, b) == FLt(b, a)
FZero == Frac(0, 1)
FOne == Frac(1, 1)
FTenth == Frac(1, 10)
\* 2 * x, the cap at 1.0 forgotten.
FDoubleUncapped(x) == Frac(2 * x.n, x.d)

\* min(2 * x, 1.0)
FMinDoubleOne(x) == IF 2 * x.n >= x.d THEN FOne ELSE Frac(2 * x.n, x.d)

-----------------------------------------------------------------------------
(* Regular expressions (module re), as sequences of elements.  A position  *)
(* is the number of characters before it, 0..Len(text).                    *)

One(cs) == [k |-> "set", cs |-> cs, q |-> "1"]
Opt(cs) == [k |-> "set", cs |-> cs, q |-> "?"]
Star(cs) == [k |-> "set", cs |-> cs, q |-> "*"]
Plus(cs) == [k |-> "set", cs |-> cs, q |-> "+"]
Lit(str) == [k |-> "lit", str |-> str]
Alt(alts) == [k |-> "alt", alts |-> alts]
Boundary == [k |-> "b"]

\* The literal str stands at position p of text.
LitAt(text, p, str) ==
    /\ p + Len(str) <= Len(text)
    /\ \A i \in 1..Len(str) : text[p + i] = str[i]

\* `in` on strings: kw is a substring of text.
Contains(text, kw) == \E p \in 0..(Len(text) - Len(kw)) : LitAt(text, p, kw)

StepSet(text, S, cs) == {p + 1 : p \in {q \in S : q < Len(text) /\ text[q + 1] \in cs}}

RECURSIVE Closure(_, _, _)
Closure(text, S, cs) ==
    LET n == S \cup StepSet(text, S, cs)
    IN  IF n = S THEN S ELSE Closure(text, n, cs)

IsWordAt(text, i) == i >= 1 /\ i <= Len(text) /\ text[i] \in Word

\* \b: exactly one of the characters before and after the position is a \w.
AtBoundary(text, p) == IsWordAt(text, p) # IsWordAt(text, p + 1)

\* The positions after element e, matched from a position of S.
Advance(text, S, e) ==
    CASE e.k = "lit" -> {p + Len(e.str) : p \in {q \in S : LitAt(text, q, e.str)}}
      [] e.k = "alt" ->
            UNION {{p + Len(a) : p \in {q \in S : LitAt(text, q, a)}} : a \in e.alts}
      [] e.k = "b" -> {p \in S : AtBoundary(text, p)}
      [] e.k = "set" ->
            CASE e.q = "1" -> StepSet(text, S, e.cs)
              [] e.q = "?" -> S \cup StepSet(text, S, e.cs)
              [] e.q = "*" -> Closure(text, S, e.cs)
              [] e.q = "+" -> Closure(text, StepSet(text, S, e.cs), e.cs)

\* The positions where a match of pat[i..] begun at a position of S can end.
RECURSIVE Ends(_, _, _, _)
Ends(text, pat, i, S) ==
    IF i > Len(pat) \/ S = {} THEN S
    ELSE Ends(text, pat, i + 1, Advance(text, S, pat[i]))

\* re.search(pat, text) finds a match.
Search(pat, text) == Ends(text, pat, 1, 0..Len(text)) # {}

-----------------------------------------------------------------------------
(* DocumentClassifier *)

\* DocumentType, in declaration order, UNKNOWN left out: the key order of
\* the pattern table.
DocTypes == <<"invoice", "receipt", "contract", "form", "letter", "report",
              "id_document", "bank_statement", "tax_document", "medical">>

\* _build_patterns(); weight is in tenths.
ClassifierPatterns == [
    invoice |-> [
        keywords |-> <<
            <<"i", "n", "v", "o", "i", "c", "e">>,
            <<"b", "i", "l", "l", " ", "t", "o">>,
            <<"s", "h", "i", "p", " ", "t", "o">>,
            <<"i", "n", "v", "o", "i", "c", "e", " ", "n", "u", "m", "b", "e", "r">>,
            <<"i", "n", "v", "o", "i", "c", "e", " ", "d", "a", "t", "e">>,
            <<"d", "u", "e", " ", "d", "a", "t", "e">>,
            <<"p", "a", "y", "m", "e", "n", "t", " ", "t", "e", "r", "m", "s">>,
            <<"s", "u", "b", "t", "o", "t", "a", "l">>,
            <<"t", "a", "x">>,
            <<"t", "o", "t", "a", "l", " ", "d", "u", "e">>,
            <<"r", "e", "m", "i", "t", " ", "t", "o">>,
            <<"p", "u", "r", "c", "h", "a", "s", "e", " ", "o", "r", "d", "e", "r">>,
            <<"q", "t", "y">>,
            <<"u", "n", "i", "t", " ", "p", "r", "i", "c", "e">>,
            <<"a", "m", "o", "u", "n", "t", " ", "d", "u", "e">>
        >>,
        patterns |-> <<
            \* invoice\s*#?\s*:?\s*\w+
            <<Lit(<<"i", "n", "v", "o", "i", "c", "e">>), Star(Space), Opt({"#"}), Star(Space), Opt({":"}), Star(Space), Plus(Word)>>,
            \* inv\s*-?\s*\d+
            <<Lit(<<"i", "n", "v">>), Star(Space), Opt({"-"}), Star(Space), Plus(Digit)>>,
            \* bill\s+to\s*:
            <<Lit(<<"b", "i", "l", "l">>), Plus(Space), Lit(<<"t", "o">>), Star(Space), Lit(<<":">>)>>,
            \* payment\s+due
            <<Lit(<<"p", "a", "y", "m", "e", "n", "t">>), Plus(Space), Lit(<<"d", "u", "e">>)>>,
            \* total\s+amount\s*:?\s*\$?
            <<Lit(<<"t", "o", "t", "a", "l">>), Plus(Space), Lit(<<"a", "m", "o", "u", "n", "t">>), Star(Space), Opt({":"}), Star(Space), Opt({"$"})>>
        >>,
        weight |-> 10 ],
    receipt |-> [
        keywords |-> <<
            <<"r", "e", "c", "e", "i", "p", "t">>,
            <<"t", "r", "a", "n", "s", "a", "c", "t", "i", "o", "n">>,
            <<"p", "a", "i", "d">>,
            <<"c", "a", "s", "h">>,
            <<"c", "r", "e", "d", "i", "t", " ", "c", "a", "r", "d">>,
            <<"c", "h", "a", "n", "g", "e">>,
            <<"s", "u", "b", "t", "o", "t", "a", "l">>,
            <<"t", "a", "x">>,
            <<"t", "o", "t", "a", "l">>,
            <<"t", "h", "a", "n", "k", " ", "y", "o", "u">>,
            <<"s", "t", "o", "r", "e">>,
            <<"c", "a", "s", "h", "i", "e", "r">>,
            <<"i", "t", "e", "m", "s">>
        >>,
        patterns |-> <<
            \* receipt\s*#?\s*:?\s*\w+
            <<Lit(<<"r", "e", "c", "e", "i", "p", "t">>), Star(Space), Opt({"#"}), Star(Space), Opt({":"}), Star(Space), Plus(Word)>>,
            \* transaction\s*id
            <<Lit(<<"t", "r", "a", "n", "s", "a", "c", "t", "i", "o", "n">>), Star(Space), Lit(<<"i", "d">>)>>,
            \* paid\s+by
            <<Lit(<<"p", "a", "i", "d">>), Plus(Space), Lit(<<"b", "y">>)>>,
            \* change\s*:?\s*\$?\d+
            <<Lit(<<"c", "h", "a", "n", "g", "e">>), Star(Space), Opt({":"}), Star(Space), Opt({"$"}), Plus(Digit)>>
        >>,
        weight |-> 10 ],
    contract |-> [
        keywords |-> <<
            <<"a", "g", "r", "e", "e", "m", "e", "n", "t">>,
            <<"c", "o", "n", "t", "r", "a", "c", "t">>,
            <<"t", "e", "r", "m", "s", " ", "a", "n", "d", " ", "c", "o", "n", "d", "i", "t", "i", "o", "n", "s">>,
            <<"p", "a", "r", "t", "y">>,
            <<"w", "h", "e", "r", "e", "a", "s">>,
            <<"h", "e", "r", "e", "b", "y">>,
            <<"w", "i", "t", "n", "e", "s", "s", "e", "t", "h">>,
            <<"c", "o", "v", "e", "n", "a", "n", "t">>,
            <<"b", "i", "n", "d", "i", "n", "g">>,
            <<"e", "x", "e", "c", "u", "t", "e", "d">>,
            <<"s", "i", "g", "n", "a", "t", "u", "r", "e">>,
            <<"e", "f", "f", "e", "c", "t", "i", "v", "e", " ", "d", "a", "t", "e">>,
            <<"t", "e", "r", "m", "i", "n", "a", "t", "i", "o", "n">>
        >>,
        patterns |-> <<
            \* this\s+agreement
            <<Lit(<<"t", "h", "i", "s">>), Plus(Space), Lit(<<"a", "g", "r", "e", "e", "m", "e", "n", "t">>)>>,
            \* parties\s+agree
            <<Lit(<<"p", "a", "r", "t", "i", "e", "s">>), Plus(Space), Lit(<<"a", "g", "r", "e", "e">>)>>,
            \* terms\s+and\s+conditions
            <<Lit(<<"t", "e", "r", "m", "s">>), Plus(Space), Lit(<<"a", "n", "d">>), Plus(Space), Lit(<<"c", "o", "n", "d", "i", "t", "i", "o", "n", "s">>)>>,
            \* binding\s+agreement
            <<Lit(<<"b", "i", "n", "d", "i", "n", "g">>), Plus(Space), Lit(<<"a", "g", "r", "e", "e", "m", "e", "n", "t">>)>>
        >>,
        weight |-> 10 ],
    form |-> [
        keywords |-> <<
            <<"f", "o", "r", "m">>,
            <<"a", "p", "p", "l", "i", "c", "a", "t", "i", "o", "n">>,
            <<"p", "l", "e", "a", "s", "e", " ", "f", "i", "l", "l">>,
            <<"r", "e", "q", "u", "i", "r", "e", "d", " ", "f", "i", "e", "l", "d", "s">>,
            <<"c", "h", "e", "c", "k", "b", "o", "x">>,
            <<"s", "e", "l", "e", "c", "t">>,
            <<"s", "i", "g", "n", "a", "t", "u", "r", "e", " ", "r", "e", "q", "u", "i", "r", "e", "d">>,
            <<"d", "a", "t", "e", " ", "o", "f", " ", "b", "i", "r", "t", "h">>,
            <<"a", "p", "p", "l", "i", "c", "a", "n", "t">>,
            <<"s", "u", "b", "m", "i", "t">>
        >>,
        patterns |-> <<
            \* form\s*#?\s*:?\s*\w+
            <<Lit(<<"f", "o", "r", "m">>), Star(Space), Opt({"#"}), Star(Space), Opt({":"}), Star(Space), Plus(Word)>>,
            \* please\s+(fill|complete)
            <<Lit(<<"p", "l", "e", "a", "s", "e">>), Plus(Space), Alt({<<"f", "i", "l", "l">>, <<"c", "o", "m", "p", "l", "e", "t", "e">>})>>,
            \* \[\s*\]
            <<Lit(<<"[">>), Star(Space), Lit(<<"]">>)>>,
            \* _+\s*\(.*?\)
            <<Plus({"_"}), Star(Space), Lit(<<"(">>), Star(AnyChar), Lit(<<")">>)>>
        >>,
        weight |-> 10 ],
    letter |-> [
        keywords |-> <<
            <<"d", "e", "a", "r">>,
            <<"s", "i", "n", "c", "e", "r", "e", "l", "y">>,
            <<"r", "e", "g", "a", "r", "d", "s">>,
            <<"y", "o", "u", "r", "s", " ", "t", "r", "u", "l", "y">>,
            <<"t", "o", " ", "w", "h", "o", "m">>,
            <<"a", "t", "t", "e", "n", "t", "i", "o", "n">>,
            <<"r", "e", ":">>,
            <<"s", "u", "b", "j", "e", "c", "t", ":">>,
            <<"e", "n", "c", "l", "o", "s", "e", "d">>
        >>,
        patterns |-> <<
            \* dear\s+\w+
            <<Lit(<<"d", "e", "a", "r">>), Plus(Space), Plus(Word)>>,
            \* sincerely\s*,
            <<Lit(<<"s", "i", "n", "c", "e", "r", "e", "l", "y">>), Star(Space), Lit(<<",">>)>>,
            \* regards\s*,
            <<Lit(<<"r", "e", "g", "a", "r", "d", "s">>), Star(Space), Lit(<<",">>)>>,
            \* to\s+whom\s+it\s+may\s+concern
            <<Lit(<<"t", "o">>), Plus(Space), Lit(<<"w", "h", "o", "m">>), Plus(Space), Lit(<<"i", "t">>), Plus(Space), Lit(<<"m", "a", "y">>), Plus(Space), Lit(<<"c", "o", "n", "c", "e", "r", "n">>)>>
        >>,
        weight |-> 9 ],
    report |-> [
        keywords |-> <<
            <<"r", "e", "p", "o", "r", "t">>,
            <<"s", "u", "m", "m", "a", "r", "y">>,
            <<"a", "n", "a", "l", "y", "s", "i", "s">>,
            <<"f", "i", "n", "d", "i", "n", "g", "s">>,
            <<"c", "o", "n", "c", "l", "u", "s", "i", "o", "n">>,
            <<"e", "x", "e", "c", "u", "t", "i", "v", "e", " ", "s", "u", "m", "m", "a", "r", "y">>,
            <<"m", "e", "t", "h", "o", "d", "o", "l", "o", "g", "y">>,
            <<"r", "e", "s", "u", "l", "t", "s">>,
            <<"r", "e", "c", "o", "m", "m", "e", "n", "d", "a", "t", "i", "o", "n", "s">>
        >>,
        patterns |-> <<
            \* executive\s+summary
            <<Lit(<<"e", "x", "e", "c", "u", "t", "i", "v", "e">>), Plus(Space), Lit(<<"s", "u", "m", "m", "a", "r", "y">>)>>,
            \* table\s+of\s+contents
            <<Lit(<<"t", "a", "b", "l", "e">>), Plus(Space), Lit(<<"o", "f">>), Plus(Space), Lit(<<"c", "o", "n", "t", "e", "n", "t", "s">>)>>,
            \* section\s+\d+
            <<Lit(<<"s", "e", "c", "t", "i", "o", "n">>), Plus(Space), Plus(Digit)>>,
            \* figure\s+\d+
            <<Lit(<<"f", "i", "g", "u", "r", "e">>), Plus(Space), Plus(Digit)>>
        >>,
        weight |-> 9 ],
    id_document |-> [
        keywords |-> <<
            <<"p", "a", "s", "s", "p", "o", "r", "t">>,
            <<"d", "r", "i", "v", "e", "r", " ", "l", "i", "c", "e", "n", "s", "e">>,
            <<"i", "d", "e", "n", "t", "i", "f", "i", "c", "a", "t", "i", "o", "n">>,
            <<"i", "d", " ", "c", "a", "r", "d">>,
            <<"d", "a", "t", "e", " ", "o", "f", " ", "b", "i", "r", "t", "h">>,
            <<"e", "x", "p", "i", "r", "y">>,
            <<"n", "a", "t", "i", "o", "n", "a", "l", "i", "t", "y">>,
            <<"s", "e", "x">>,
            <<"h", "e", "i", "g", "h", "t">>
        >>,
        patterns |-> <<
            \* passport\s*no
            <<Lit(<<"p", "a", "s", "s", "p", "o", "r", "t">>), Star(Space), Lit(<<"n", "o">>)>>,
            \* license\s*#
            <<Lit(<<"l", "i", "c", "e", "n", "s", "e">>), Star(Space), Lit(<<"#">>)>>,
            \* date\s+of\s+birth
            <<Lit(<<"d", "a", "t", "e">>), Plus(Space), Lit(<<"o", "f">>), Plus(Space), Lit(<<"b", "i", "r", "t", "h">>)>>,
            \* expir(y|ation)\s+date
            <<Lit(<<"e", "x", "p", "i", "r">>), Alt({<<"y">>, <<"a", "t", "i", "o", "n">>}), Plus(Space), Lit(<<"d", "a", "t", "e">>)>>
        >>,
        weight |-> 10 ],
    bank_statement |-> [
        keywords |-> <<
            <<"s", "t", "a", "t", "e", "m", "e", "n", "t">>,
            <<"a", "c", "c", "o", "u", "n", "t">>,
            <<"b", "a", "l", "a", "n", "c", "e">>,
            <<"d", "e", "p", "o", "s", "i", "t">>,
            <<"w", "i", "t", "h", "d", "r", "a", "w", "a", "l">>,
            <<"t", "r", "a", "n", "s", "a", "c", "t", "i", "o", "n">>,
            <<"o", "p", "e", "n", "i", "n", "g", " ", "b", "a", "l", "a", "n", "c", "e">>,
            <<"c", "l", "o", "s", "i", "n", "g", " ", "b", "a", "l", "a", "n", "c", "e">>,
            <<"i", "n", "t", "e", "r", "e", "s", "t">>
        >>,
        patterns |-> <<
            \* account\s*(number|#)
            <<Lit(<<"a", "c", "c", "o", "u", "n", "t">>), Star(Space), Alt({<<"n", "u", "m", "b", "e", "r">>, <<"#">>})>>,
            \* statement\s+period
            <<Lit(<<"s", "t", "a", "t", "e", "m", "e", "n", "t">>), Plus(Space), Lit(<<"p", "e", "r", "i", "o", "d">>)>>,
            \* opening\s+balance
            <<Lit(<<"o", "p", "e", "n", "i", "n", "g">>), Plus(Space), Lit(<<"b", "a", "l", "a", "n", "c", "e">>)>>,
            \* closing\s+balance
            <<Lit(<<"c", "l", "o", "s", "i", "n", "g">>), Plus(Space), Lit(<<"b", "a", "l", "a", "n", "c", "e">>)>>
        >>,
        weight |-> 10 ],
    tax_document |-> [
        keywords |-> <<
            <<"t", "a", "x">>,
            <<"w", "-", "2">>,
            <<"1", "0", "9", "9">>,
            <<"i", "r", "s">>,
            <<"i", "n", "c", "o", "m", "e">>,
            <<"d", "e", "d", "u", "c", "t", "i", "o", "n">>,
            <<"f", "e", "d", "e", "r", "a", "l">>,
            <<"s", "t", "a", "t", "e">>,
            <<"e", "m", "p", "l", "o", "y", "e", "r">>,
            <<"w", "a", "g", "e", "s">>,
            <<"w", "i", "t", "h", "h", "o", "l", "d", "i", "n", "g">>
        >>,
        patterns |-> <<
            \* form\s+w-?2
            <<Lit(<<"f", "o", "r", "m">>), Plus(Space), Lit(<<"w">>), Opt({"-"}), Lit(<<"2">>)>>,
            \* form\s+1099
            <<Lit(<<"f", "o", "r", "m">>), Plus(Space), Lit(<<"1", "0", "9", "9">>)>>,
            \* tax\s+year
            <<Lit(<<"t", "a", "x">>), Plus(Space), Lit(<<"y", "e", "a", "r">>)>>,
            \* taxable\s+income
            <<Lit(<<"t", "a", "x", "a", "b", "l", "e">>), Plus(Space), Lit(<<"i", "n", "c", "o", "m", "e">>)>>
        >>,
        weight |-> 10 ],
    medical |-> [
        keywords |-> <<
            <<"p", "a", "t", "i", "e", "n", "t">>,
            <<"d", "i", "a", "g", "n", "o", "s", "i", "s">>,
            <<"p", "r", "e", "s", "c", "r", "i", "p", "t", "i", "o", "n">>,
            <<"m", "e", "d", "i", "c", "a", "t", "i", "o", "n">>,
            <<"d", "o", "c", "t", "o", "r">>,
            <<"p", "h", "y", "s", "i", "c", "i", "a", "n">>,
            <<"h", "o", "s", "p", "i", "t", "a", "l">>,
            <<"c", "l", "i", "n", "i", "c">>,
            <<"m", "e", "d", "i", "c", "a", "l">>,
            <<"t", "r", "e", "a", "t", "m", "e", "n", "t">>,
            <<"d", "o", "s", "a", "g", "e">>,
            <<"s", "y", "m", "p", "t", "o", "m", "s">>
        >>,
        patterns |-> <<
            \* patient\s+(name|id)
            <<Lit(<<"p", "a", "t", "i", "e", "n", "t">>), Plus(Space), Alt({<<"n", "a", "m", "e">>, <<"i", "d">>})>>,
            \* date\s+of\s+service
            <<Lit(<<"d", "a", "t", "e">>), Plus(Space), Lit(<<"o", "f">>), Plus(Space), Lit(<<"s", "e", "r", "v", "i", "c", "e">>)>>,
            \* diagnosis\s*:
            <<Lit(<<"d", "i", "a", "g", "n", "o", "s", "i", "s">>), Star(Space), Lit(<<":">>)>>,
            \* rx\s*:
            <<Lit(<<"r", "x">>), Star(Space), Lit(<<":">>)>>
        >>,
        weight |-> 10 ] ]

\* len(config["keywords"]) + len(config["patterns"]) * 2
MaxScore(config) == Len(config.keywords) + Len(config.patterns) * 2

\* The keyword loop: the keywords found, in table order.
RECURSIVE ScoreKeywords(_, _, _, _)
ScoreKeywords(config, text_lower, i, found) ==
    IF i > Len(config.keywords) THEN found
    ELSE ScoreKeywords(config, text_lower, i + 1,
            IF Contains(text_lower, Lower(config.keywords[i]))
            THEN Append(found, config.keywords[i]) ELSE found)

\* The pattern loop scoring a pattern like a keyword: score += 1.0.
RECURSIVE ScorePatternsOne(_, _, _, _)
ScorePatternsOne(config, text_lower, i, score) ==
    IF i > Len(config.patterns) THEN score
    ELSE ScorePatternsOne(config, text_lower, i + 1,
            IF Search(config.patterns[i], text_lower) THEN score + 1 ELSE score)

\* The pattern loop: score += 2.0 for each pattern that is found.
RECURSIVE ScorePatterns(_, _, _, _)
ScorePatterns(config, text_lower, i, score) ==
    IF i > Len(config.patterns) THEN score
    ELSE ScorePatterns(config, text_lower, i + 1,
            IF Search(config.patterns[i], text_lower) THEN score + 2 ELSE score)

\* One turn of the scoring loop: the normalized score and the keywords found.
ScoreType(config, text_lower) ==
    LET found == ScoreKeywords(config, text_lower, 1, <<>>)
        score == ScorePatterns(config, text_lower, 1, Len(found))
        weighted == score * config.weight
        max_score == MaxScore(config)
    IN  [normalized |-> IF max_score > 0 THEN Frac(weighted, 10 * max_score) ELSE FZero,
         found |-> found]

\* A maximum that keeps the last key of the largest score.
RECURSIVE BestTypeLast(_, _, _)
BestTypeLast(scores, i, best) ==
    IF i > Len(DocTypes) THEN best
    ELSE BestTypeLast(scores, i + 1,
            IF FLe(scores[best], scores[DocTypes[i]]) THEN DocTypes[i] ELSE best)

\* max(scores, key=scores.get): the first key, in key order, of the largest
\* score.
RECURSIVE BestType(_, _, _)
BestType(scores, i, best) ==
    IF i > Len(DocTypes) THEN best
    ELSE BestType(scores, i + 1,
            IF FGt(scores[DocTypes[i]], scores[best]) THEN DocTypes[i] ELSE best)

\* The minimum confidence test with <= for <.
BelowMinimumLe(best_score) == FLe(best_score, FTenth)

\* "Require minimum confidence": best_score < 0.1
BelowMinimum(best_score) == FLt(best_score, FTenth)

\* The end of classify, "Find best match", from the scores and the keywords
\* found of each type.
BestMatch(scored) ==
    LET scores == [t \in DOMAIN scored |-> scored[t].normalized]
        best_type == BestType(scores, 2, DocTypes[1])
        best_score == scores[best_type]
    IN  IF BelowMinimum(best_score)
        THEN [called |-> TRUE, document_type |-> "unknown", confidence |-> FZero,
              all_scores |-> scores, keywords_found |-> <<>>]
        ELSE [called |-> TRUE, document_type |-> best_type,
              confidence |-> FMinDoubleOne(best_score),
              all_scores |-> scores, keywords_found |-> scored[best_type].found]

\* The scoring loop of classify: scores and keywords_found.
TypeScores(text) ==
    The({[t \in {DocTypes[i] : i \in 1..Len(DocTypes)} |->
             ScoreType(ClassifierPatterns[t], text_lower)] :
         text_lower \in {Lower(text)}})

\* DocumentClassifier.classify(text)
classify(text) == The({BestMatch(scored) : scored \in {TypeScores(text)}})

-----------------------------------------------------------------------------
(* LanguageDetector *)

\* The keys of the language pattern table, in table order.
LangCodes == <<"en", "es", "fr", "de", "it", "pt", "nl", "ru", "zh", "ja", "ko",
               "ar", "hi", "th">>

\* Language, in declaration order, UNKNOWN left out: the list of
\* get_supported_languages().
AllLanguages == <<"en", "es", "fr", "de", "it", "pt", "nl", "ru", "zh", "ja", "ko",
                  "ar", "hi", "th", "vi", "id", "ms", "tr", "pl", "sv", "no", "da",
                  "fi", "el", "he", "cs", "ro", "hu", "uk">>

\* _build_language_patterns()
LanguagePatterns == [
    en |-> [
        \* the and is in to of a for that with
        common_words |-> << <<"t", "h", "e">>, <<"a", "n", "d">>, <<"i", "s">>, <<"i", "n">>,
            <<"t", "o">>, <<"o", "f">>, <<"a">>, <<"f", "o", "r">>, <<"t", "h", "a", "t">>,
            <<"w", "i", "t", "h">> >>,
        \* \bthe\b  \band\b  \bis\b
        patterns |-> << <<Boundary, Lit(<<"t", "h", "e">>), Boundary>>,
            <<Boundary, Lit(<<"a", "n", "d">>), Boundary>>,
            <<Boundary, Lit(<<"i", "s">>), Boundary>> >>,
        script |-> "latin" ],
    es |-> [
        \* de la que el en y los se del las
        common_words |-> << <<"d", "e">>, <<"l", "a">>, <<"q", "u", "e">>, <<"e", "l">>,
            <<"e", "n">>, <<"y">>, <<"l", "o", "s">>, <<"s", "e">>, <<"d", "e", "l">>,
            <<"l", "a", "s">> >>,
        \* \bque\b  \bdel\b  ñ  ¿  ¡
        patterns |-> << <<Boundary, Lit(<<"q", "u", "e">>), Boundary>>,
            <<Boundary, Lit(<<"d", "e", "l">>), Boundary>>, <<Lit(<<"u00F1">>)>>,
            <<Lit(<<"u00BF">>)>>, <<Lit(<<"u00A1">>)>> >>,
        script |-> "latin" ],
    fr |-> [
        \* de la le et les des en un du une
        common_words |-> << <<"d", "e">>, <<"l", "a">>, <<"l", "e">>, <<"e", "t">>,
            <<"l", "e", "s">>, <<"d", "e", "s">>, <<"e", "n">>, <<"u", "n">>, <<"d", "u">>,
            <<"u", "n", "e">> >>,
        \* \bqu['e]  \bc'est\b  œ  ç
        patterns |-> << <<Boundary, Lit(<<"q", "u">>), One(({"'"} \cup {"e"}))>>,
            <<Boundary, Lit(<<"c", "'", "e", "s", "t">>), Boundary>>, <<Lit(<<"u0153">>)>>,
            <<Lit(<<"u00E7">>)>> >>,
        script |-> "latin" ],
    de |-> [
        \* der die und in den von zu das mit sich
        common_words |-> << <<"d", "e", "r">>, <<"d", "i", "e">>, <<"u", "n", "d">>,
            <<"i", "n">>, <<"d", "e", "n">>, <<"v", "o", "n">>, <<"z", "u">>,
            <<"d", "a", "s">>, <<"m", "i", "t">>, <<"s", "i", "c", "h">> >>,
        \* \bder\b  \bdie\b  \bund\b  ß  ü  ö  ä
        patterns |-> << <<Boundary, Lit(<<"d", "e", "r">>), Boundary>>,
            <<Boundary, Lit(<<"d", "i", "e">>), Boundary>>,
            <<Boundary, Lit(<<"u", "n", "d">>), Boundary>>, <<Lit(<<"u00DF">>)>>,
            <<Lit(<<"u00FC">>)>>, <<Lit(<<"u00F6">>)>>, <<Lit(<<"u00E4">>)>> >>,
        script |-> "latin" ],
    it |-> [
        \* di che la il un per con non una sono
        common_words |-> << <<"d", "i">>, <<"c", "h", "e">>, <<"l", "a">>, <<"i", "l">>,
            <<"u", "n">>, <<"p", "e", "r">>, <<"c", "o", "n">>, <<"n", "o", "n">>,
            <<"u", "n", "a">>, <<"s", "o", "n", "o">> >>,
        \* \bche\b  \bnon\b  \bper\b
        patterns |-> << <<Boundary, Lit(<<"c", "h", "e">>), Boundary>>,
            <<Boundary, Lit(<<"n", "o", "n">>), Boundary>>,
            <<Boundary, Lit(<<"p", "e", "r">>), Boundary>> >>,
        script |-> "latin" ],
    pt |-> [
        \* de que e do da em um para com não
        common_words |-> << <<"d", "e">>, <<"q", "u", "e">>, <<"e">>, <<"d", "o">>,
            <<"d", "a">>, <<"e", "m">>, <<"u", "m">>, <<"p", "a", "r", "a">>,
            <<"c", "o", "m">>, <<"n", "u00E3", "o">> >>,
        \* \bnão\b  \bpara\b  ã  õ
        patterns |-> << <<Boundary, Lit(<<"n", "u00E3", "o">>), Boundary>>,
            <<Boundary, Lit(<<"p", "a", "r", "a">>), Boundary>>, <<Lit(<<"u00E3">>)>>,
            <<Lit(<<"u00F5">>)>> >>,
        script |-> "latin" ],
    nl |-> [
        \* de het een van en in is dat op te
        common_words |-> << <<"d", "e">>, <<"h", "e", "t">>, <<"e", "e", "n">>,
            <<"v", "a", "n">>, <<"e", "n">>, <<"i", "n">>, <<"i", "s">>, <<"d", "a", "t">>,
            <<"o", "p">>, <<"t", "e">> >>,
        \* \bhet\b  \been\b  \bvan\b  ij
        patterns |-> << <<Boundary, Lit(<<"h", "e", "t">>), Boundary>>,
            <<Boundary, Lit(<<"e", "e", "n">>), Boundary>>,
            <<Boundary, Lit(<<"v", "a", "n">>), Boundary>>, <<Lit(<<"i", "j">>)>> >>,
        script |-> "latin" ],
    ru |-> [
        \* и в не на я что он с это как
        common_words |-> << <<"u0438">>, <<"u0432">>, <<"u043D", "u0435">>,
            <<"u043D", "u0430">>, <<"u044F">>, <<"u0447", "u0442", "u043E">>,
            <<"u043E", "u043D">>, <<"u0441">>, <<"u044D", "u0442", "u043E">>,
            <<"u043A", "u0430", "u043A">> >>,
        \* [а-яА-Я]
        patterns |-> << <<One((InRange(1072, 1103) \cup InRange(1040, 1071)))>> >>,
        script |-> "cyrillic" ],
    zh |-> [
        \* 的 一 是 不 了 在 人 有 我 他
        common_words |-> << <<"u7684">>, <<"u4E00">>, <<"u662F">>, <<"u4E0D">>, <<"u4E86">>,
            <<"u5728">>, <<"u4EBA">>, <<"u6709">>, <<"u6211">>, <<"u4ED6">> >>,
        \* [\u4e00-\u9fff]
        patterns |-> << <<One(InRange(19968, 40959))>> >>,
        script |-> "cjk" ],
    ja |-> [
        \* の に は を た が で て と し
        common_words |-> << <<"u306E">>, <<"u306B">>, <<"u306F">>, <<"u3092">>, <<"u305F">>,
            <<"u304C">>, <<"u3067">>, <<"u3066">>, <<"u3068">>, <<"u3057">> >>,
        \* [\u3040-\u309f]  [\u30a0-\u30ff]
        patterns |-> << <<One(InRange(12352, 12447))>>, <<One(InRange(12448, 12543))>> >>,
        script |-> "japanese" ],
    ko |-> [
        \* 이 그 저 것 수 하다 있다 되다 없다
        common_words |-> << <<"uC774">>, <<"uADF8">>, <<"uC800">>, <<"uAC83">>, <<"uC218">>,
            <<"uD558", "uB2E4">>, <<"uC788", "uB2E4">>, <<"uB418", "uB2E4">>,
            <<"uC5C6", "uB2E4">> >>,
        \* [\uac00-\ud7af]
        patterns |-> << <<One(InRange(44032, 55215))>> >>,
        script |-> "hangul" ],
    ar |-> [
        \* من في على إلى عن مع هذا أن كان لا
        common_words |-> << <<"u0645", "u0646">>, <<"u0641", "u064A">>,
            <<"u0639", "u0644", "u0649">>, <<"u0625", "u0644", "u0649">>, <<"u0639", "u0646">>,
            <<"u0645", "u0639">>, <<"u0647", "u0630", "u0627">>, <<"u0623", "u0646">>,
            <<"u0643", "u0627", "u0646">>, <<"u0644", "u0627">> >>,
        \* [\u0600-\u06ff]
        patterns |-> << <<One(InRange(1536, 1791))>> >>,
        script |-> "arabic" ],
    hi |-> [
        \* का की को में है और से के एक यह
        common_words |-> << <<"u0915", "u093E">>, <<"u0915", "u0940">>, <<"u0915", "u094B">>,
            <<"u092E", "u0947", "u0902">>, <<"u0939", "u0948">>, <<"u0914", "u0930">>,
            <<"u0938", "u0947">>, <<"u0915", "u0947">>, <<"u090F", "u0915">>,
            <<"u092F", "u0939">> >>,
        \* [\u0900-\u097f]
        patterns |-> << <<One(InRange(2304, 2431))>> >>,
        script |-> "devanagari" ],
    th |-> [
        \* ที่ และ ใน ของ มี เป็น ได้ จะ นี้ ไม่
        common_words |-> << <<"u0E17", "u0E35", "u0E48">>, <<"u0E41", "u0E25", "u0E30">>,
            <<"u0E43", "u0E19">>, <<"u0E02", "u0E2D", "u0E07">>, <<"u0E21", "u0E35">>,
            <<"u0E40", "u0E1B", "u0E47", "u0E19">>, <<"u0E44", "u0E14", "u0E49">>,
            <<"u0E08", "u0E30">>, <<"u0E19", "u0E35", "u0E49">>,
            <<"u0E44", "u0E21", "u0E48">> >>,
        \* [\u0e00-\u0e7f]
        patterns |-> << <<One(InRange(3584, 3711))>> >>,
        script |-> "thai" ] ]

\* The keys of script_counts, in insertion order.
Scripts == <<"latin", "cyrillic", "arabic", "cjk", "hangul", "devanagari", "thai",
             "japanese", "hebrew", "greek">>

\* One turn of the character loop of _detect_script: the script whose count
\* the if/elif chain raises for a character, "none" when no branch is taken.
ScriptOf(char) ==
    LET code == CodePoint[char]
    IN  IF      0 <= code /\ code <= 591 THEN "latin"
        ELSE IF 1024 <= code /\ code <= 1279 THEN "cyrillic"
        ELSE IF 1536 <= code /\ code <= 1791 THEN "arabic"
        ELSE IF 19968 <= code /\ code <= 40959 THEN "cjk"
        ELSE IF 44032 <= code /\ code <= 55215 THEN "hangul"
        ELSE IF 2304 <= code /\ code <= 2431 THEN "devanagari"
        ELSE IF 3584 <= code /\ code <= 3711 THEN "thai"
        ELSE IF 12352 <= code /\ code <= 12543 THEN "japanese"
        ELSE IF 1424 <= code /\ code <= 1535 THEN "hebrew"
        ELSE IF 880 <= code /\ code <= 1023 THEN "greek"
        ELSE "none"

\* script_counts after the character loop.
RECURSIVE CountScripts(_, _, _)
CountScripts(text, i, script_counts) ==
    IF i > Len(text) THEN script_counts
    ELSE CountScripts(text, i + 1,
            IF ScriptOf(text[i]) = "none" THEN script_counts
            ELSE [script_counts EXCEPT ![ScriptOf(text[i])] = @ + 1])

\* The last key of the largest count.
RECURSIVE LastLargest(_, _, _)
LastLargest(script_counts, i, best) ==
    IF i > Len(Scripts) THEN best
    ELSE LastLargest(script_counts, i + 1,
            IF script_counts[Scripts[i]] >= script_counts[best] THEN Scripts[i] ELSE best)

\* max(script_counts, key=script_counts.get): the first key of the largest
\* count.
RECURSIVE FirstLargest(_, _, _)
FirstLargest(script_counts, i, best) ==
    IF i > Len(Scripts) THEN best
    ELSE FirstLargest(script_counts, i + 1,
            IF script_counts[Scripts[i]] > script_counts[best] THEN Scripts[i] ELSE best)

\* LanguageDetector._detect_script(text)
detect_script(text) ==
    FirstLargest(
        CountScripts(text, 1, [s \in {Scripts[i] : i \in 1..Len(Scripts)} |-> 0]),
        2, Scripts[1])

\* The largest element of a non-empty set of positions.
MaxOf(S) == CHOOSE x \in S : \A y \in S : y <= x

\* len(re.findall(pat, text)): the matches, left to right, none overlapping
\* another.  The patterns of the language table have no quantifier, so a
\* match begun at a position has one end.
RECURSIVE CountMatches(_, _, _)
CountMatches(pat, text, p) ==
    IF p > Len(text) THEN 0
    ELSE LET ends == Ends(text, pat, 1, {p})
         IN  IF ends = {} THEN CountMatches(pat, text, p + 1)
             ELSE 1 + CountMatches(pat, text,
                                   IF MaxOf(ends) > p THEN MaxOf(ends) ELSE p + 1)

\* The common-word loop: re.search(rf"\b{re.escape(word)}\b", text_lower).
RECURSIVE ScoreWords(_, _, _, _)
ScoreWords(config, text_lower, i, score) ==
    IF i > Len(config.common_words) THEN score
    ELSE ScoreWords(config, text_lower, i + 1,
            IF Search(<<Boundary, Lit(config.common_words[i]), Boundary>>, text_lower)
            THEN score + 2 ELSE score)

\* The pattern loop: re.findall(pattern, text, re.IGNORECASE); the letters of
\* the patterns are lower-case and their ranges hold both cases, so a match
\* with the case ignored is a match in the lower-cased text.
RECURSIVE ScoreOccurrences(_, _, _, _)
ScoreOccurrences(config, text_lower, i, score) ==
    IF i > Len(config.patterns) THEN score
    ELSE ScoreOccurrences(config, text_lower, i + 1,
            score + CountMatches(config.patterns[i], text_lower, 0))

\* One turn of the scoring loop of detect, on text_lower and on the text with
\* its case ignored, which are the same sequence of characters here.  The score is kept in halves
\* (a word adds 1.0, an occurrence 0.5), the script boost 1.5 in halves too.
ScoreLanguage(config, text_lower, script) ==
    LET halves == ScoreOccurrences(config, text_lower, 1,
                      ScoreWords(config, text_lower, 1, 0))
        boosted == IF config.script = script THEN halves * 3 ELSE halves * 2
        max_possible == Len(config.common_words) + Len(config.patterns) * 5
    IN  IF max_possible > 0 THEN Frac(boosted, 4 * max_possible) ELSE FZero

\* An insertion that puts item before the items of its own score.
RECURSIVE InsertRankedUnstable(_, _, _)
InsertRankedUnstable(sorted, item, scores) ==
    IF sorted = <<>> THEN <<item>>
    ELSE IF FLe(scores[Head(sorted)], scores[item])
         THEN <<item>> \o sorted
         ELSE <<Head(sorted)>> \o InsertRankedUnstable(Tail(sorted), item, scores)

\* One insertion of a stable descending sort: item goes after every item
\* whose score is not lower.
RECURSIVE InsertRanked(_, _, _)
InsertRanked(sorted, item, scores) ==
    IF sorted = <<>> THEN <<item>>
    ELSE IF FLt(scores[Head(sorted)], scores[item])
         THEN <<item>> \o sorted
         ELSE <<Head(sorted)>> \o InsertRanked(Tail(sorted), item, scores)

\* sorted(scores.items(), key=lambda x: x[1], reverse=True): the keys.
RECURSIVE SortedScores(_, _, _)
SortedScores(scores, i, sorted) ==
    IF i > Len(LangCodes) THEN sorted
    ELSE SortedScores(scores, i + 1, InsertRanked(sorted, LangCodes[i], scores))

\* The test of the classifier, > 0.1, in the place of > 0.
HasPrimaryTenth(top_score) == FGt(top_score, FTenth)

\* sorted_scores[0][1] > 0
HasPrimary(top_score) == FGt(top_score, FZero)

\* not text or len(text.strip()) == 0
IsBlank(text) == \A i \in 1..Len(text) : text[i] \in Space

\* The scoring loop of detect: scores.
LanguageScores(text, script) ==
    The({[l \in {LangCodes[i] : i \in 1..Len(LangCodes)} |->
             ScoreLanguage(LanguagePatterns[l], text_lower, script)] :
         text_lower \in {Lower(text)}})

\* The end of detect, were a text that scores for no language given the
\* language of its script.
BestMatchesOrScript(scores, script) ==
    LET sorted_scores == SortedScores(scores, 1, <<>>)
        secondary == SelectSeq(SubSeq(sorted_scores, 2, 4),
                               LAMBDA l : FGt(scores[l], FTenth))
    IN  IF sorted_scores # <<>> /\ HasPrimary(scores[sorted_scores[1]])
        THEN [called |-> TRUE, primary_language |-> sorted_scores[1],
              confidence |-> FMinDoubleOne(scores[sorted_scores[1]]),
              all_scores |-> scores, script_detected |-> script,
              is_multilingual |-> Len(secondary) > 0,
              secondary_languages |-> secondary]
        ELSE [called |-> TRUE,
              primary_language |-> CASE script = "greek" -> "el"
                                     [] script = "hebrew" -> "he"
                                     [] OTHER -> "unknown",
              confidence |-> FZero,
              all_scores |-> scores, script_detected |-> script,
              is_multilingual |-> FALSE, secondary_languages |-> <<>>]

\* The end of detect, "Find best matches", from the scores.
BestMatches(scores, script) ==
    LET sorted_scores == SortedScores(scores, 1, <<>>)
        secondary == SelectSeq(SubSeq(sorted_scores, 2, 4),
                               LAMBDA l : FGt(scores[l], FTenth))
    IN  IF sorted_scores # <<>> /\ HasPrimary(scores[sorted_scores[1]])
        THEN [called |-> TRUE, primary_language |-> sorted_scores[1],
              confidence |-> FMinDoubleOne(scores[sorted_scores[1]]),
              all_scores |-> scores, script_detected |-> script,
              is_multilingual |-> Len(secondary) > 0,
              secondary_languages |-> secondary]
        ELSE [called |-> TRUE, primary_language |-> "unknown", confidence |-> FZero,
              all_scores |-> scores, script_detected |-> script,
              is_multilingual |-> FALSE, secondary_languages |-> <<>>]

\* LanguageDetector.detect(text)
detect(text) ==
    IF IsBlank(text)
    THEN [called |-> TRUE, primary_language |-> "unknown", confidence |-> FZero,
          all_scores |-> [l \in {} |-> FZero], script_detected |-> "unknown",
          is_multilingual |-> FALSE, secondary_languages |-> <<>>]
    ELSE The({BestMatches(scores, script) :
                 <<scores, script>> \in
                     {<<LanguageScores(text, s), s>> : s \in {detect_script(text)}}})

-----------------------------------------------------------------------------
(* FieldExtractor *)

\* An optional argument: None, or a list.
None == [none |-> TRUE]
Some(list) == [none |-> FALSE, list |-> list]

\* str.strip(): the text without its leading and trailing whitespace.
RECURSIVE Strip(_)
Strip(str) ==
    IF str = <<>> THEN str
    ELSE IF Head(str) \in Space THEN Strip(Tail(str))
    ELSE IF str[Len(str)] \in Space THEN Strip(SubSeq(str, 1, Len(str) - 1))
    ELSE str

\* The number of characters of cs that follow position q without a break.
RECURSIVE RunLength(_, _, _)
RunLength(text, q, cs) ==
    IF q < Len(text) /\ text[q + 1] \in cs THEN 1 + RunLength(text, q + 1, cs) ELSE 0

\* re.escape(label), matched with re.IGNORECASE at position p.
LabelAt(text, p, label) ==
    /\ p + Len(label) <= Len(text)
    /\ \A i \in 1..Len(label) : ToLower(text[p + i]) = ToLower(label[i])

\* The position where the group begins, were the separators [ \t:]+, which
\* do not pass a line break.
GroupStartSameLine(text, q) ==
    LET ks == {k \in 1..RunLength(text, q, {" ", "\t", ":"}) :
                  q + k < Len(text) /\ text[q + k + 1] # "\n"}
    IN  IF ks = {} THEN -1 ELSE q + MaxOf(ks)

\* [\s:]+([^\n]+) matched at position q, the end of the label: the position
\* where the group begins, -1 when there is no match.  [\s:]+ is greedy: it
\* takes the longest run of separators after which a character other than
\* the line break is left for the group.
GroupStart(text, q) ==
    LET ks == {k \in 1..RunLength(text, q, Space \cup {":"}) :
                  q + k < Len(text) /\ text[q + k + 1] # "\n"}
    IN  IF ks = {} THEN -1 ELSE q + MaxOf(ks)

\* re.search(rf'{re.escape(label)}[\s:]+([^\n]+)', text, re.IGNORECASE): the
\* positions where a match begins.
MatchStarts(text, label) ==
    {p \in 0..Len(text) : LabelAt(text, p, label) /\ GroupStart(text, p + Len(label)) >= 0}

\* match.group(1) of the leftmost match.
Group1(text, label) ==
    LET p == CHOOSE x \in MatchStarts(text, label) :
                 \A y \in MatchStarts(text, label) : x <= y
        g == GroupStart(text, p + Len(label))
    IN  SubSeq(text, g + 1, g + RunLength(text, g, Alphabet \ {"\n"}))

\* The patterns of the verbatim and of the lower-cased label alone.
LabelPatternsSpaced(field_name) == <<field_name, Lower(field_name)>>

\* The patterns of _extract_field, by their labels, in the order they are
\* tried.
LabelPatterns(field_name) ==
    <<field_name, Lower(field_name), SelectSeq(field_name, LAMBDA c : c # " ")>>

\* The pattern loop, were a pattern whose group is blank passed over.
RECURSIVE FirstMatchNotBlank(_, _, _)
FirstMatchNotBlank(text, patterns, i) ==
    IF i > Len(patterns) THEN <<>>
    ELSE IF MatchStarts(text, patterns[i]) # {}
              /\ Strip(Group1(text, patterns[i])) # <<>>
         THEN Strip(Group1(text, patterns[i]))
         ELSE FirstMatchNotBlank(text, patterns, i + 1)

\* The pattern loop of _extract_field: the first pattern that matches gives
\* the value.
RECURSIVE FirstMatch(_, _, _)
FirstMatch(text, patterns, i) ==
    IF i > Len(patterns) THEN <<>>
    ELSE IF MatchStarts(text, patterns[i]) # {}
         THEN Strip(Group1(text, patterns[i]))
         ELSE FirstMatch(text, patterns, i + 1)

\* FieldExtractor._extract_field(text, field_name)
extract_field(text, field_name) == FirstMatch(text, LabelPatterns(field_name), 1)

\* hashlib.md5(field_name.encode()).hexdigest()[:8], as hexadecimal digits, of
\* the field names of the model.
Md5Hex8(field_name) ==
    CASE field_name = <<"T", "o", "t", "a", "l">> ->
            <<9, 6, 11, 0, 1, 4, 1, 2>>   \* 96b01412
      [] field_name = <<"I", "n", "v", "o", "i", "c", "e", " ", "N", "u", "m", "b", "e", "r">> ->
            <<4, 14, 0, 6, 5, 11, 10, 1>>   \* 4e065ba1
      [] field_name = <<"T", "a", "x", " ", "I", "D">> ->
            <<5, 6, 1, 6, 14, 5, 11, 0>>   \* 5616e5b0
      [] field_name = <<"D", "u", "e", " ", "D", "a", "t", "e">> ->
            <<1, 4, 12, 8, 4, 1, 14, 14>>   \* 14c841ee

\* int(hex, 16) % 16, digit by digit.
RECURSIVE HexMod16(_, _, _)
HexMod16(hex, i, acc) ==
    IF i > Len(hex) THEN acc ELSE HexMod16(hex, i + 1, (acc * 16 + hex[i]) % 16)

\* int(hex, 16) % 15, digit by digit.
RECURSIVE HexMod15(_, _, _)
HexMod15(hex, i, acc) ==
    IF i > Len(hex) THEN acc ELSE HexMod15(hex, i + 1, (acc * 16 + hex[i]) % 15)

\* FieldExtractor._calculate_confidence(field_name, value), in hundredths:
\* min(1.0, 0.85 + (hash_value % 15) / 100)
calculate_confidence(field_name, value) ==
    IF value = <<>> THEN FZero
    ELSE LET variation == HexMod15(Md5Hex8(field_name), 1, 0)
         IN  IF 85 + variation >= 100 THEN FOne ELSE Frac(85 + variation, 100)

\* The list comprehension of extract: [f.strip() for f in custom_fields if f.strip()]
StrippedNames(custom_fields) ==
    SelectSeq([i \in 1..Len(custom_fields) |-> Strip(custom_fields[i])],
              LAMBDA f : f # <<>>)

\* all_fields, were an empty enabled_fields taken as None is.
AllFieldsOrConfigured(fields, enabled_fields, custom_fields) ==
    (IF enabled_fields.none \/ enabled_fields.list = <<>> THEN fields
     ELSE enabled_fields.list)
        \o (IF custom_fields.none \/ custom_fields.list = <<>> THEN <<>>
            ELSE StrippedNames(custom_fields.list))

\* all_fields of extract.
AllFields(fields, enabled_fields, custom_fields) ==
    (IF enabled_fields.none THEN fields ELSE enabled_fields.list)
        \o (IF custom_fields.none \/ custom_fields.list = <<>> THEN <<>>
            ELSE StrippedNames(custom_fields.list))

\* The result loop of extract: the dict of the FieldResults.
FieldResults(text, all_fields) ==
    [field \in {all_fields[i] : i \in 1..Len(all_fields)} |->
        LET value == extract_field(text, field)
        IN  [value |-> value,
             confidence |-> calculate_confidence(field, value),
             found |-> value # <<>>]]

\* An extract that also extracts the fields add_custom_field has collected.
extractAdded(fields, text, enabled_fields, custom_fields) ==
    FieldResults(text, AllFields(fields, enabled_fields, custom_fields) \o self_custom_fields)

\* FieldExtractor.extract(text, enabled_fields, custom_fields) of the extractor
\* whose configured fields are `fields`.
extract(fields, text, enabled_fields, custom_fields) ==
    FieldResults(text, AllFields(fields, enabled_fields, custom_fields))

\* FieldExtractor.add_custom_field(field_name): the new self._custom_fields.
add_custom_field(custom, field_name) ==
    IF field_name # <<>> /\ \A i \in 1..Len(custom) : custom[i] # field_name
    THEN Append(custom, field_name) ELSE custom

\* round(found / total * 100, 1), cut off after the first decimal.
TruncatedPercent(found, total) == Frac((1000 * found) \div total, 10)

\* round(found / total * 100, 1), in tenths: to the nearest tenth, a half
\* to the even one.
RoundedPercent(found, total) ==
    LET q == (1000 * found) \div total
        r == (1000 * found) % total
    IN  Frac(IF 2 * r > total \/ (2 * r = total /\ q % 2 = 1) THEN q + 1 ELSE q, 10)

\* FieldExtractor.get_statistics(results)
get_statistics(results) ==
    LET total == Cardinality(DOMAIN results)
        found == Cardinality({field \in DOMAIN results : results[field].found})
    IN  [called |-> TRUE,
         total_fields |-> total,
         fields_found |-> found,
         fields_empty |-> total - found,
         success_rate |-> IF total > 0 THEN RoundedPercent(found, total) ELSE FZero]

\* Field names.
\* "Total"
NameTotal == <<"T", "o", "t", "a", "l">>

\* "Invoice Number"
NameInvoiceNumber == <<"I", "n", "v", "o", "i", "c", "e", " ", "N", "u", "m", "b", "e", "r">>

\* "Tax ID"
NameTaxId == <<"T", "a", "x", " ", "I", "D">>

-----------------------------------------------------------------------------
(* StructuredOutputProcessor.  A table fragment is taken as parsed: its     *)
(* header row and its body rows, each a sequence of one-line cell texts.   *)

\* schema_mapping, were every type a key of it.
SchemaOfEveryType(document_type) == document_type

\* DocumentClassifier.classify_with_routing(text): schema_mapping.get(type, "general")
SchemaMapping(document_type) ==
    IF document_type \in {"invoice", "receipt", "contract", "bank_statement",
                          "tax_document", "medical"}
    THEN document_type ELSE "general"

\* DocumentClassifier.classify_with_routing(text): the result of classify
\* and the suggested schema.
classify_with_routing(text) ==
    The({[called |-> TRUE, result |-> result,
          suggested_schema |-> SchemaMapping(result.document_type)] :
            result \in {classify(text)}})

\* The named schemas: the fields of each, key and label.
SchemaFields(schema_name) ==
    CASE schema_name = "invoice" ->
            <<[key |-> "invoice_number", label |-> NameInvoiceNumber],
              [key |-> "total", label |-> NameTotal]>>
      [] schema_name = "receipt" -> <<[key |-> "total", label |-> NameTotal]>>
      [] OTHER -> <<>>

\* Schema-driven extraction: the fields of the schema that are found.
ExtractSchema(text, schema_name) ==
    LET schema == SchemaFields(schema_name)
        found == {i \in 1..Len(schema) : extract_field(text, schema[i].label) # <<>>}
    IN  [key \in {schema[i].key : i \in found} |->
            extract_field(text, schema[CHOOSE i \in found : schema[i].key = key].label)]

\* The header keywords of the line-item columns, in the order they are tried.
ColumnKeywords ==
    <<[field |-> "description", keywords |-> {<<"d", "e", "s", "c", "r", "i", "p", "t", "i", "o", "n">>, <<"i", "t", "e", "m">>}],
      [field |-> "quantity", keywords |-> {<<"q", "u", "a", "n", "t", "i", "t", "y">>, <<"q", "t", "y">>}],
      [field |-> "unit_price", keywords |-> {<<"p", "r", "i", "c", "e">>, <<"r", "a", "t", "e">>}],
      [field |-> "amount", keywords |-> {<<"a", "m", "o", "u", "n", "t">>, <<"t", "o", "t", "a", "l">>}]>>

\* The index of the first header cell that holds a keyword of the column, 0
\* when there is none.
ColumnOf(header, column) ==
    LET hits == {i \in 1..Len(header) :
                    \E kw \in column.keywords : Contains(Lower(header[i]), kw)}
    IN  IF hits = {} THEN 0 ELSE CHOOSE i \in hits : \A j \in hits : i <= j

\* The cell of a row in a column, empty when the row has no such cell.
CellOf(row, col) == IF col >= 1 /\ col <= Len(row) THEN row[col] ELSE <<>>

\* The line item of a body row.
LineItemOf(header, row) ==
    [c \in {ColumnKeywords[i].field : i \in 1..Len(ColumnKeywords)} |->
        CellOf(row, ColumnOf(header,
                   ColumnKeywords[CHOOSE i \in 1..Len(ColumnKeywords) :
                                      ColumnKeywords[i].field = c]))]

\* The line items of a table, were no row dropped.
TableLineItemsOfAllRows(table) ==
    [i \in 1..Len(table.body) |-> LineItemOf(table.header, table.body[i])]

\* The line items of a table: the rows with a description that is not
\* blank.
TableLineItems(table) ==
    SelectSeq([i \in 1..Len(table.body) |-> LineItemOf(table.header, table.body[i])],
              LAMBDA item : Strip(item.description) # <<>>)

\* The line items of the tables, in table order.
RECURSIVE ParseLineItems(_)
ParseLineItems(tables_html) ==
    IF tables_html = <<>> THEN <<>>
    ELSE TableLineItems(Head(tables_html)) \o ParseLineItems(Tail(tables_html))

\* The regex family of the entities, in the order they are tried.
EntityPatterns ==
    <<[type |-> "email",
       pattern |-> <<Plus(Word \cup {".", "-"}), Lit(<<"@">>), Plus(Word \cup {".", "-"})>>],
      [type |-> "phone",
       pattern |-> <<One(Digit), One(Digit), One(Digit), Lit(<<"-">>),
                     One(Digit), One(Digit), One(Digit), One(Digit)>>],
      [type |-> "money",
       pattern |-> <<Lit(<<"$">>), Plus(Digit \cup {".", ","})>>],
      [type |-> "date",
       pattern |-> <<One(Digit), One(Digit), Lit(<<"/">>), One(Digit), One(Digit),
                     Lit(<<"/">>), One(Digit), One(Digit), One(Digit), One(Digit)>>]>>

\* The end of the match of pat that begins at position p, -1 without one.
MatchEnd(pat, text, p) ==
    LET ends == Ends(text, pat, 1, {p})
    IN  IF ends = {} THEN -1 ELSE MaxOf(ends)

\* The matches of pat from position p on, left to right, none overlapping.
RECURSIVE Matches(_, _, _)
Matches(pat, text, p) ==
    IF p >= Len(text) THEN <<>>
    ELSE LET end == MatchEnd(pat, text, p)
         IN  IF end > p
             THEN <<[start |-> p, end |-> end]>> \o Matches(pat, text, end)
             ELSE Matches(pat, text, p + 1)

\* The entities that begin at position p, by type.
EntitiesAt(text, p) ==
    LET typed == [i \in 1..Len(EntityPatterns) |->
                     [type |-> EntityPatterns[i].type,
                      matches |-> Matches(EntityPatterns[i].pattern, text, 0)]]
        here == SelectSeq(typed, LAMBDA t : \E k \in 1..Len(t.matches) :
                                               t.matches[k].start = p)
    IN  [i \in 1..Len(here) |->
            LET m == CHOOSE m \in {here[i].matches[k] : k \in 1..Len(here[i].matches)} :
                         m.start = p
            IN  [type |-> here[i].type, value |-> SubSeq(text, m.start + 1, m.end)]]

\* The entities of the text, in the order of their positions.
RECURSIVE ExtractEntities(_, _)
ExtractEntities(text, p) ==
    IF p >= Len(text) THEN <<>>
    ELSE EntitiesAt(text, p) \o ExtractEntities(text, p + 1)

\* The result of an empty or blank text, and the stages that ran: none.
ZeroValue(text) ==
    [result |-> [document_type |-> "unknown", confidence |-> FZero,
                 language |-> "unknown", language_confidence |-> FZero,
                 extracted_fields |-> <<>>, line_items |-> <<>>, entities |-> <<>>,
                 raw |-> [text |-> text]],
     stages |-> <<>>]

\* Stages 2 to 7 of process: the result and the stages that ran.
RunStages(text, tables_html) ==
    The({[result |-> [document_type |-> classification.document_type,
                      confidence |-> classification.confidence,
                      language |-> language.primary_language,
                      language_confidence |-> language.confidence,
                      extracted_fields |->
                          ExtractSchema(text, SchemaMapping(classification.document_type)),
                      line_items |-> ParseLineItems(tables_html),
                      entities |-> ExtractEntities(text, 0),
                      raw |-> [text |-> text]],
          stages |-> <<"classification", "language_detection", "field_extraction",
                       "line_item_parsing", "entity_extraction">>] :
            <<classification, language>> \in {<<classify(text), detect(text)>>}})

\* A process that parses the line items before it looks at the text.
processTablesFirst(text, tables_html) ==
    IF Strip(text) = <<>>
    THEN [result |-> [ZeroValue(text).result EXCEPT
                          !.line_items = ParseLineItems(tables_html)],
          stages |-> <<"line_item_parsing">>]
    ELSE RunStages(text, tables_html)

\* A process that keeps the line items of the call before.
processKeepingItems(text, tables_html) ==
    IF Strip(text) = <<>> THEN ZeroValue(text)
    ELSE The({[run EXCEPT !.result.line_items =
                      (IF lastProcess.called THEN lastProcess.result.line_items
                       ELSE <<>>) \o run.result.line_items] :
                 run \in {RunStages(text, tables_html)}})

\* StructuredOutputProcessor.process(text, tables_html): the result and the
\* stages that ran.
process(text, tables_html) ==
    IF Strip(text) = <<>> THEN ZeroValue(text) ELSE RunStages(text, tables_html)

-----------------------------------------------------------------------------
(* OutputParser.  A tag is matched as it is written, without attributes.   *)

TableOpen == {<<"<", "t", "a", "b", "l", "e", ">">>}
TableClose == {<<"<", "/", "t", "a", "b", "l", "e", ">">>}
RowOpen == {<<"<", "t", "r", ">">>}
RowClose == {<<"<", "/", "t", "r", ">">>}
CellOpen == {<<"<", "t", "d", ">">>, <<"<", "t", "h", ">">>}
CellClose == {<<"<", "/", "t", "d", ">">>, <<"<", "/", "t", "h", ">">>}

\* The length of the tags of a set, which all have the same length.
TagLen(tags) == Len(CHOOSE tag \in tags : TRUE)

\* The first position at or after from where one of the tags stands, -1
\* without one.
FindAny(text, tags, from) ==
    LET ps == {p \in from..Len(text) : \E tag \in tags : LitAt(text, p, tag)}
    IN  IF ps = {} THEN -1 ELSE CHOOSE p \in ps : \A q \in ps : p <= q

\* The regions of text that begin with an opening tag and end with the next
\* closing tag, from a position on, in document order and non-overlapping:
\* of each the positions before and after it.
RECURSIVE TagRegions(_, _, _, _)
TagRegions(text, opens, closes, from) ==
    LET p == FindAny(text, opens, from)
    IN  IF p < 0 THEN <<>>
        ELSE LET q == FindAny(text, closes, p + TagLen(opens))
             IN  IF q < 0 THEN <<>>
                 ELSE <<[start |-> p, end |-> q + TagLen(closes)]>>
                      \o TagRegions(text, opens, closes, q + TagLen(closes))

\* The regions with their tags.
Blocks(text, opens, closes) ==
    LET regions == TagRegions(text, opens, closes, 0)
    IN  [k \in 1..Len(regions) |->
            SubSeq(text, regions[k].start + 1, regions[k].end)]

\* The regions without their tags.
Inner(text, opens, closes) ==
    LET regions == TagRegions(text, opens, closes, 0)
    IN  [k \in 1..Len(regions) |->
            SubSeq(text, regions[k].start + TagLen(opens) + 1,
                   regions[k].end - TagLen(closes))]

\* sep.join(parts)
RECURSIVE JoinWith(_, _)
JoinWith(parts, sep) ==
    IF parts = <<>> THEN <<>>
    ELSE IF Len(parts) = 1 THEN parts[1]
    ELSE parts[1] \o sep \o JoinWith(Tail(parts), sep)

\* A row in CSV form: its cells joined with commas.
RowCsv(row) == JoinWith(Inner(row, CellOpen, CellClose), <<",">>)

\* A table in CSV form, were its rows joined with commas too.
TableCsvOneLine(block) ==
    LET rows == Inner(block, RowOpen, RowClose)
    IN  JoinWith([r \in 1..Len(rows) |-> RowCsv(rows[r])], <<",">>)

\* A table in CSV form: its rows joined with newlines.
TableCsv(block) ==
    LET rows == Inner(block, RowOpen, RowClose)
    IN  JoinWith([r \in 1..Len(rows) |-> RowCsv(rows[r])], <<"\n">>)

\* extract_tables(text): the HTML blocks and the CSV blocks.
extract_tables(text) ==
    LET html == Blocks(text, TableOpen, TableClose)
    IN  [html_tables |-> html,
         csv_tables |-> [k \in 1..Len(html) |-> TableCsv(html[k])]]

\* The page delimiter "--- Page N ---", N decimal digits, matched at
\* position p: the position after it, -1 when it does not stand there.
MarkerEnd(text, p) ==
    LET digits == RunLength(text, p + 9, Digit)
    IN  IF LitAt(text, p, <<"-", "-", "-", " ", "P", "a", "g", "e", " ">>) /\ digits >= 1
           /\ LitAt(text, p + 9 + digits, <<" ", "-", "-", "-">>)
        THEN p + 9 + digits + 4
        ELSE -1

\* The segments the page delimiters split the text into, from a position
\* on: the text before the first delimiter, between two delimiters, and
\* after the last.
RECURSIVE PageSegments(_, _)
PageSegments(text, from) ==
    LET ps == {p \in from..Len(text) : MarkerEnd(text, p) >= 0}
    IN  IF ps = {} THEN <<SubSeq(text, from + 1, Len(text))>>
        ELSE LET p == CHOOSE x \in ps : \A y \in ps : x <= y
             IN  <<SubSeq(text, from + 1, p)>>
                 \o PageSegments(text, MarkerEnd(text, p))

\* A parse that takes a text of whitespace alone for an empty one.
parseStripped(text) ==
    LET segments == PageSegments(text, 0)
    IN  SelectSeq(segments, LAMBDA segment : Strip(segment) # <<>>)

\* parse(text): the raw texts of the pages.  An empty text has no pages, a
\* text without delimiters is one page, and the segments of a text with
\* delimiters are its pages, the blank ones left out.
parse(text) ==
    LET segments == PageSegments(text, 0)
    IN  IF text = <<>> THEN <<>>
        ELSE IF Len(segments) = 1 THEN <<text>>
        ELSE SelectSeq(segments, LAMBDA segment : Strip(segment) # <<>>)

\* The display equation $$...$$ that begins at position p, its content not
\* empty: the position after it, -1 when none begins there.
DisplayEnd(text, p) ==
    IF LitAt(text, p, <<"$", "$">>)
    THEN LET q == FindAny(text, {<<"$", "$">>}, p + 3)
         IN  IF q < 0 THEN -1 ELSE q + 2
    ELSE -1

\* The inline equation $...$ that begins at position p, its content not
\* empty and without a dollar sign: the position after it, -1 when none
\* begins there.
InlineEnd(text, p) ==
    IF LitAt(text, p, <<"$">>)
    THEN LET q == FindAny(text, {<<"$">>}, p + 1)
         IN  IF q < p + 2 THEN -1 ELSE q + 1
    ELSE -1

\* An equation of the text: its kind, the positions before and after it,
\* and its content, the text between the dollar signs.
Equation(text, kind, start, end) ==
    [kind |-> kind, start |-> start, end |-> end,
     content |-> IF kind = "display" THEN SubSeq(text, start + 3, end - 2)
                 ELSE SubSeq(text, start + 2, end - 1)]

\* The display equations of the text from position p on.
RECURSIVE DisplayPass(_, _)
DisplayPass(text, p) ==
    IF p >= Len(text) THEN <<>>
    ELSE IF DisplayEnd(text, p) >= 0
         THEN <<Equation(text, "display", p, DisplayEnd(text, p))>>
              \o DisplayPass(text, DisplayEnd(text, p))
         ELSE DisplayPass(text, p + 1)

\* The inline equations of the text from position p on.
RECURSIVE InlinePass(_, _)
InlinePass(text, p) ==
    IF p >= Len(text) THEN <<>>
    ELSE IF InlineEnd(text, p) >= 0
         THEN <<Equation(text, "inline", p, InlineEnd(text, p))>>
              \o InlinePass(text, InlineEnd(text, p))
         ELSE InlinePass(text, p + 1)

\* An extraction in two passes over the whole text, the display equations
\* and then the inline ones.
ScanTwice(text, p) == DisplayPass(text, p) \o InlinePass(text, p)

\* The equations of the text from position p on, in one pass: at each
\* position a display equation is looked for before an inline one, and the
\* scan goes on after the equation it has found.
RECURSIVE ScanEquations(_, _)
ScanEquations(text, p) ==
    IF p >= Len(text) THEN <<>>
    ELSE IF DisplayEnd(text, p) >= 0
         THEN <<Equation(text, "display", p, DisplayEnd(text, p))>>
              \o ScanEquations(text, DisplayEnd(text, p))
    ELSE IF InlineEnd(text, p) >= 0
         THEN <<Equation(text, "inline", p, InlineEnd(text, p))>>
              \o ScanEquations(text, InlineEnd(text, p))
    ELSE ScanEquations(text, p + 1)

\* extract_equations(text)
extract_equations(text) == ScanEquations(text, 0)

-----------------------------------------------------------------------------
(* ui.api_client: OCRAPIClient.__init__ and get_api_client.                *)

\* A str object: the arguments and the environment hold a str or None.
Str(s) == [str |-> s]

\* a or b, for strings and None.
OrElse(a, b) == IF a = None \/ a = Str("") THEN b ELSE a

\* os.getenv(name, default)
getenv(env, name, default) == IF env[name] = None THEN default ELSE env[name]

\* OCRAPIClient(base_url=base_url, api_key=api_key): the new instance.
OCRAPIClient(env, base_url, api_key) ==
    [base_url |-> OrElse(base_url,
                         getenv(env, "API_BASE_URL",
                                Str("http://localhost:8000"))),
     api_key |-> OrElse(api_key, getenv(env, "API_KEY", Str(""))),
     timeout |-> 300,
     api_prefix |-> "/api/v1"]

\* A client is made on every call that passes any argument.
CreatesOnAnyArgument(client, base_url, api_key) ==
    client = None \/ base_url # None \/ api_key # None

\* _api_client is None or base_url is not None
Creates(client, base_url, api_key) == client = None \/ base_url # None

-----------------------------------------------------------------------------
(* api.routes.ocr: the POST /ocr handler process_document.  os.path is     *)
(* posixpath.                                                              *)

\* os.path.splitext(p)[1]: the text from the last dot on, when that dot
\* comes after the last slash and after a character of the name that is
\* not a dot; the empty text otherwise.
splitext(p) ==
    LET sepIndex == IF \E i \in 1..Len(p) : p[i] = "/"
                    THEN CHOOSE i \in 1..Len(p) :
                             p[i] = "/" /\ \A j \in (i + 1)..Len(p) : p[j] # "/"
                    ELSE 0
        dotIndex == IF \E i \in 1..Len(p) : p[i] = "."
                    THEN CHOOSE i \in 1..Len(p) :
                             p[i] = "." /\ \A j \in (i + 1)..Len(p) : p[j] # "."
                    ELSE 0
    IN  IF dotIndex > sepIndex
           /\ \E i \in (sepIndex + 1)..(dotIndex - 1) : p[i] # "."
        THEN SubSeq(p, dotIndex, Len(p))
        ELSE <<>>

\* supported
supported ==
    {<<".", "j", "p", "g">>, <<".", "j", "p", "e", "g">>, <<".", "p", "n", "g">>, <<".", "b", "m", "p">>, <<".", "g", "i", "f">>, <<".", "t", "i", "f", "f">>, <<".", "p", "d", "f">>}

\* file.filename or "document"
FilenameOf(name) == IF name = <<>> THEN <<"d", "o", "c", "u", "m", "e", "n", "t">> ELSE name

\* os.path.splitext(filename)[1].lower()
ExtensionOf(name) == Lower(splitext(FilenameOf(name)))

\* The file tempfile.NamedTemporaryFile makes for a call: a new name each
\* time.
TempFile(r) == [tmp |-> r]

\* A call that has not been made.
NotCalled == [pc |-> "none"]

\* The end of a call, with the status of its response.
Ended(req, status) == [req EXCEPT !.pc = "done", !.status = status]

-----------------------------------------------------------------------------
(* validators.sanitize_filename.  os.path is posixpath.                    *)

\* os.path.basename(p): p[p.rfind('/') + 1:]
basename(p) ==
    LET seps == {i \in 1..Len(p) : p[i] = "/"}
    IN  IF seps = {} THEN p
        ELSE SubSeq(p, (CHOOSE i \in seps : \A j \in seps : j <= i) + 1, Len(p))

\* str.replace(old, ''): the occurrences of old are removed from left to
\* right, each beginning where the one before it ended.
RECURSIVE Remove(_, _)
Remove(str, old) ==
    IF Len(str) < Len(old) THEN str
    ELSE IF SubSeq(str, 1, Len(old)) = old
         THEN Remove(SubSeq(str, Len(old) + 1, Len(str)), old)
         ELSE <<Head(str)>> \o Remove(Tail(str), old)

\* dangerous_chars
dangerous_chars ==
    <<<<".", ".">>, <<"/">>, <<"\\">>, <<"u0000">>, <<"<">>, <<">">>, <<"|">>, <<"*">>,
      <<"?">>, <<"\"">>>>

\* The loop of sanitize_filename: the strings of dangerous_chars from the
\* i-th on are removed, one after the other.
RECURSIVE RemoveEach(_, _)
RemoveEach(filename, i) ==
    IF i > Len(dangerous_chars) THEN filename
    ELSE RemoveEach(Remove(filename, dangerous_chars[i]), i + 1)

\* sanitize_filename(filename)
sanitize_filename(filename) == RemoveEach(basename(filename), 1)

-----------------------------------------------------------------------------
(* SchemaExtractor.validate_schema.  A schema is a mapping of field keys   *)
(* to entries, an entry a mapping that may have the keys "type" and        *)
(* "pattern".  The field key k stands for "field<k>".                      *)

\* A validation that takes an entry with a pattern for a typed one.
ValidateTypeOrPattern(schema_arg) ==
    \A key \in DOMAIN schema_arg : DOMAIN schema_arg[key] # {}

\* validate_schema(schema): no entry lacks "type".
validate_schema(schema_arg) ==
    \A key \in DOMAIN schema_arg : "type" \in DOMAIN schema_arg[key]

-----------------------------------------------------------------------------
(* Input texts *)

RECURSIVE Concat(_)
Concat(frags) == IF frags = <<>> THEN <<>> ELSE Head(frags) \o Concat(Tail(frags))

\* The texts made of at most n fragments of vocab.
TextsOf(vocab, n) == {Concat(fs) : fs \in UNION {[1..k -> vocab] : k \in 0..n}}

\* Fragments of documents: a classified text is a concatenation of them.
ClassifyVocab == {
    \* 'Invoice Number: INV-1\n'
    <<"I", "n", "v", "o", "i", "c", "e", " ", "N", "u", "m", "b", "e", "r", ":", " ", "I", "N", "V", "-", "1", "\n">>,
    \* 'Total Due: $5\n'
    <<"T", "o", "t", "a", "l", " ", "D", "u", "e", ":", " ", "$", "5", "\n">>,
    \* 'receipt 7 '
    <<"r", "e", "c", "e", "i", "p", "t", " ", "7", " ">>,
    \* 'This Agreement '
    <<"T", "h", "i", "s", " ", "A", "g", "r", "e", "e", "m", "e", "n", "t", " ">>,
    \* 'Dear Sir, '
    <<"D", "e", "a", "r", " ", "S", "i", "r", ",", " ">>,
    \* 'section 2 '
    <<"s", "e", "c", "t", "i", "o", "n", " ", "2", " ">>,
    \* 'date of birth '
    <<"d", "a", "t", "e", " ", "o", "f", " ", "b", "i", "r", "t", "h", " ">>,
    \* 'opening balance '
    <<"o", "p", "e", "n", "i", "n", "g", " ", "b", "a", "l", "a", "n", "c", "e", " ">>,
    \* 'account # statement period '
    <<"a", "c", "c", "o", "u", "n", "t", " ", "#", " ", "s", "t", "a", "t", "e", "m", "e", "n", "t", " ", "p", "e", "r", "i", "o", "d", " ">>,
    \* 'rx: '
    <<"r", "x", ":", " ">> }

\* Fragments of sentences: a text whose language is detected is a
\* concatenation of them.
DetectVocab == {
    \* 'The '
    <<"T", "h", "e", " ">>,
    \* 'and is '
    <<"a", "n", "d", " ", "i", "s", " ">>,
    \* 'de la '
    <<"d", "e", " ", "l", "a", " ">>,
    \* 'en '
    <<"e", "n", " ">>,
    \* 'en que '
    <<"e", "n", " ", "q", "u", "e", " ">>,
    \* '\xbf\xf1o '
    <<"u00BF", "u00F1", "o", " ">>,
    \* '\u0915\u093e'
    <<"u0915", "u093E">>,
    \* '\u0438'
    <<"u0438">>,
    \* '7 '
    <<"7", " ">>,
    \* ' '
    <<" ">>,
    \* '\u03b1'
    <<"u03B1">> }

\* The texts fields are extracted from.
ExtractTexts == {
    \* 'Invoice Number: INV-1\nTotal: $5'
    <<"I", "n", "v", "o", "i", "c", "e", " ", "N", "u", "m", "b", "e", "r", ":", " ", "I", "N", "V", "-", "1", "\n", "T", "o", "t", "a", "l", ":", " ", "$", "5">>,
    \* 'invoicenumber 7\nTAX ID:\n 9 '
    <<"i", "n", "v", "o", "i", "c", "e", "n", "u", "m", "b", "e", "r", " ", "7", "\n", "T", "A", "X", " ", "I", "D", ":", "\n", " ", "9", " ">>,
    \* 'Total: '
    <<"T", "o", "t", "a", "l", ":", " ">>,
    \* 'TaxID 1\nTax ID: 2'
    <<"T", "a", "x", "I", "D", " ", "1", "\n", "T", "a", "x", " ", "I", "D", ":", " ", "2">>,
    \* 'TaxID 5\nTax ID: '
    <<"T", "a", "x", "I", "D", " ", "5", "\n", "T", "a", "x", " ", "I", "D", ":", " ">> }

\* The enabled_fields and custom_fields arguments of extract.
EnabledArgs == {None, Some(<<>>), Some(<<NameTotal, NameInvoiceNumber>>)}
CustomArgs == {None, Some(<<<<" ", "T", "a", "x", " ", "I", "D", " ">>, <<" ">>>>)}

\* The field_name arguments of add_custom_field.
CustomNames == {<<>>, NameTaxId}

\* The field_config an extractor is constructed with.
FieldConfigs == {<<NameTotal>>, <<NameInvoiceNumber, NameTaxId>>}

\* The texts that are processed.
ProcessTexts == {
    <<>>,
    \* ' \n'
    <<" ", "\n">>,
    \* 'Invoice Number: $5'
    <<"I", "n", "v", "o", "i", "c", "e", " ", "N", "u", "m", "b", "e", "r", ":", " ", "$", "5">>,
    \* 'a@b.c 555-1234'
    <<"a", "@", "b", ".", "c", " ", "5", "5", "5", "-", "1", "2", "3", "4">> }

\* Item | Qty | Price | Amount, with the rows Widget A | 5 | $10 | $50 and
\* Widget B | 3 | $20 | $60.
WidgetTable ==
    [header |-> <<<<"I", "t", "e", "m">>, <<"Q", "t", "y">>, <<"P", "r", "i", "c", "e">>, <<"A", "m", "o", "u", "n", "t">>>>,
     body |-> <<<<<<"W", "i", "d", "g", "e", "t", " ", "A">>, <<"5">>, <<"$", "1", "0">>, <<"$", "5", "0">>>>,
              <<<<"W", "i", "d", "g", "e", "t", " ", "B">>, <<"3">>, <<"$", "2", "0">>, <<"$", "6", "0">>>>>>]

\* Qty | Description, with the rows 1 | Bolt and 2 | (no description).
BoltTable ==
    [header |-> <<<<"Q", "t", "y">>, <<"D", "e", "s", "c", "r", "i", "p", "t", "i", "o", "n">>>>,
     body |-> <<<<<<"1">>, <<"B", "o", "l", "t">>>>,
              <<<<"2">>, <<" ">>>>>>]

\* A table without rows.
EmptyTable == [header |-> <<>>, body |-> <<>>]

\* A table with the header row Item alone.
HeaderOnlyTable == [header |-> <<<<"I", "t", "e", "m">>>>, body |-> <<>>]

\* A table without a header row, with the row Nut | 4.
HeaderlessTable == [header |-> <<>>, body |-> <<<<<<"N", "u", "t">>, <<"4">>>>>>]

\* The tables_html arguments of process.
ProcessTables ==
    {<<>>, <<WidgetTable>>, <<EmptyTable, BoltTable>>,
     <<HeaderOnlyTable, HeaderlessTable>>}

\* One character of each script, and one of no script.
ScriptVocab ==
    {<<"a">>, <<"u0438">>, <<"u0645">>, <<"u7684">>, <<"uC774">>, <<"u0915">>,
     <<"u0E17">>, <<"u306E">>, <<"u30AB">>, <<"u05D0">>, <<"u03B1">>, <<"u2611">>}

\* The k-th of the field names of a result map.
FieldName(k) == [i \in 1..k |-> "x"]

\* The result maps handed to get_statistics: total entries, the first found
\* of them found.
ResultMap(total, found) ==
    [field \in {FieldName(k) : k \in 1..total} |->
        IF Len(field) <= found
        THEN [value |-> <<"1">>, confidence |-> Frac(85, 100), found |-> TRUE]
        ELSE [value |-> <<>>, confidence |-> FZero, found |-> FALSE]]

\* The texts of the calls that share one heap.
HeapTexts == {
    <<>>,
    \* 'Tax ID: 7'
    <<"T", "a", "x", " ", "I", "D", ":", " ", "7">> }

\* The table of the cells A and B in one row.
SingleRowTable == <<"<", "t", "a", "b", "l", "e", ">", "<", "t", "r", ">", "<", "t", "d", ">", "A", "<", "/", "t", "d", ">", "<", "t", "d", ">", "B", "<", "/", "t", "d", ">", "<", "/", "t", "r", ">", "<", "/", "t", "a", "b", "l", "e", ">">>

\* A table of a header row and a body row.
HeaderRowTable ==
    <<"<", "t", "a", "b", "l", "e", ">", "<", "t", "r", ">", "<", "t", "h", ">", "N", "<", "/", "t", "h", ">", "<", "t", "h", ">", "Q", "<", "/", "t", "h", ">", "<", "/", "t", "r", ">">>
    \o <<"<", "t", "r", ">", "<", "t", "d", ">", "x", "<", "/", "t", "d", ">", "<", "t", "d", ">", "2", "<", "/", "t", "d", ">", "<", "/", "t", "r", ">", "<", "/", "t", "a", "b", "l", "e", ">">>

\* The fragments of the texts handed to extract_tables: whole tables, tags
\* of a table alone, rows, and text that is no tag.
TablesVocab ==
    {SingleRowTable, HeaderRowTable, <<"<", "t", "a", "b", "l", "e", ">">>, <<"<", "/", "t", "a", "b", "l", "e", ">">>,
     <<"<", "t", "r", ">", "<", "t", "d", ">", "C", "<", "/", "t", "d", ">", "<", "/", "t", "r", ">">>, <<"<", "t", "r", ">", "<", "t", "h", ">", "H", "<", "/", "t", "h", ">", "<", "t", "d", ">", "7", "<", "/", "t", "d", ">", "<", "/", "t", "r", ">">>,
     <<"<", "t", "a", "b", "l", "e", ">", "<", "/", "t", "a", "b", "l", "e", ">">>, <<"x", " ">>, <<"\n">>, <<"A", ",", "B">>}

\* The lines the texts handed to _extract_field are made of.
FieldVocab ==
    {<<"S", "u", "b", "t", "o", "t", "a", "l", ":", " ", "3", "\n">>, <<"T", "o", "t", "a", "l", ":", " ", "4", "\n">>, <<"T", "o", "t", "a", "l", "s", "\n">>, <<"T", "o", "t", "a", "l", ":", "\n", "\n">>, <<"\n">>,
     <<" ", "9", " ", "\n">>, <<"T", "O", "T", "A", "L">>, <<"T", "a", "x", " ", "I", "D", ":", " ", "2", "\n">>, <<"T", "a", "x", "I", "D", " ", "1", "\n">>, <<":", " ">>,
     <<":">>}

\* The field names handed to _extract_field.
FieldNames == {NameTotal, NameTaxId}

\* The fragments of the filenames handed to sanitize_filename.
FilenameVocab ==
    {<<".">>, <<".", ".">>, <<"/">>, <<"\\">>, <<"u0000">>, <<"<">>, <<">">>, <<"|">>,
     <<"*">>, <<"?">>, <<"\"">>, <<"e", "t", "c">>, <<"a", ".", "p", "d", "f">>}

\* The entries of a schema: with and without a type, with and without a
\* pattern.
SchemaEntries ==
    {[k \in keys |-> IF k = "type" THEN "string" ELSE "\\w+"] :
        keys \in SUBSET {"type", "pattern"}}

\* The schemas handed to validate_schema: of n field keys at most.
Schemas(n) == UNION {[keys -> SchemaEntries] : keys \in SUBSET (1..n)}

\* The fragments of the texts handed to parse: page delimiters, parts of
\* them, and text.
PagesVocab ==
    {<<"-", "-", "-", " ", "P", "a", "g", "e", " ", "1", " ", "-", "-", "-", "\n", "I", "n", "v", "o", "i", "c", "e", " ", "7", "\n">>, <<"-", "-", "-", " ", "P", "a", "g", "e", " ", "2", " ", "-", "-", "-">>,
     <<"-", "-", "-", " ", "P", "a", "g", "e", " ", "1", "2", " ", "-", "-", "-", "\n", "T", "o", "t", "a", "l", ":", " ", "5">>, <<"-", "-", "-", " ", "P", "a", "g", "e", " ">>, <<"-", "-", "-", " ">>, <<"\n">>, <<" ">>,
     <<"I", "n", "v", "o", "i", "c", "e", " ", "7", "\n">>, <<"x", " ">>, <<"3", " ", "-", "-", "-">>}

\* The fragments of the texts handed to extract_equations: equations,
\* dollar signs alone, and text.
EquationsVocab ==
    {<<"$", "$", "a", "+", "b", "$", "$">>, <<"$", "E", " ", "=", " ", "m", "c", "^", "2", "$">>, <<"$", "$">>, <<"$">>, <<"$", "$", "$">>, <<"x">>, <<" ">>, <<"\n">>,
     <<"i", "s", " ">>, <<"y", "=", "2">>}

\* The base_url and api_key arguments of get_api_client, and the values of
\* the two environment variables, None for a variable that is not set.
BaseUrls == {None, Str(""), Str("http://ocr:9000")}
ApiKeys == {None, Str("key-1"), Str("key-2")}
Environments ==
    [API_BASE_URL : {None, Str("http://env:8000")},
     API_KEY : {None, Str("key-env")}]

\* The filenames of the uploads; the empty text is also the upload without
\* a filename.
UploadNames ==
    {<<>>, <<"a", ".", "p", "d", "f">>, <<"s", "c", "a", "n", ".", "P", "N", "G">>, <<"n", "o", "t", "e", "s", ".", "t", "x", "t">>, <<".", "p", "d", "f">>, <<"x", ".", "t", "a", "r", ".", "g", "z">>, <<"v", ".", "2", "/", "p", "d", "f">>}

-----------------------------------------------------------------------------
(* The classifier alone: a text is drawn, classify is applied to it. *)

\* The components a specification leaves alone.
ClassifierIdle ==
    classifyText = <<>> /\ classifyResult = NoResult /\ routingResult = NoResult
ScriptIdle == scriptText = <<>> /\ scriptResult = NoResult
DetectorIdle == detectText = <<>> /\ detectResult = NoResult /\ ScriptIdle
StatisticsIdle == statsResults = <<>> /\ statistics = NoResult
ExtractorIdle ==
    /\ self_fields = <<>>
    /\ self_custom_fields = <<>>
    /\ firstExtract = NoResult
    /\ lastExtract = NoResult
    /\ StatisticsIdle
ProcessorIdle == firstProcess = NoResult /\ lastProcess = NoResult
ParserIdle ==
    /\ parseText = <<>>
    /\ tablesResult = NoResult
    /\ pagesResult = NoResult
    /\ equationsResult = NoResult

FieldIdle ==
    /\ fieldText = <<>>
    /\ fieldName = <<>>
    /\ fieldValue = NoResult

ValidatorIdle ==
    /\ sanitizeName = <<>>
    /\ sanitizeResult = NoResult

SchemaIdle ==
    /\ schemaArg = <<>>
    /\ schemaValid = NoResult

HeapIdle ==
    /\ heap = <<>>
    /\ self = <<>>
    /\ configured = <<>>
    /\ calls = 0
    /\ lastCall = NoResult
OcrIdle == requests = <<>> /\ tmpFiles = {}

ClientIdle ==
    /\ _api_client = None
    /\ clients = <<>>
    /\ environ = [API_BASE_URL |-> None, API_KEY |-> None]
    /\ getCalls = <<>>

SingletonIdle ==
    singleton = <<>> /\ constructed = <<>> /\ thread = <<>> /\ returned = <<>>

InitClassify ==
    /\ classifyText \in TextsOf(ClassifyVocab, MaxFrags)
    /\ classifyResult = NoResult
    /\ routingResult = NoResult
    /\ DetectorIdle
    /\ ExtractorIdle
    /\ ProcessorIdle
    /\ SingletonIdle
    /\ HeapIdle
    /\ ParserIdle
    /\ FieldIdle
    /\ ValidatorIdle
    /\ SchemaIdle
    /\ ClientIdle
    /\ OcrIdle

Classify ==
    /\ classifyResult = NoResult
    /\ classifyResult' = classify(classifyText)
    /\ UNCHANGED <<classifyText, routingResult, detectorVars, extractorVars,
                   processorVars, singletonVars, heapVars, parserVars,
                   fieldVars, validatorVars, schemaVars, clientVars, ocrVars>>

ClassifyWithRouting ==
    /\ routingResult = NoResult
    /\ routingResult' = classify_with_routing(classifyText)
    /\ UNCHANGED <<classifyText, classifyResult, detectorVars, extractorVars,
                   processorVars, singletonVars, heapVars, parserVars,
                   fieldVars, validatorVars, schemaVars, clientVars, ocrVars>>

NextClassify == Classify \/ ClassifyWithRouting

SpecClassify == InitClassify /\ [][NextClassify]_vars

-----------------------------------------------------------------------------
(* The language detector alone: a text is drawn, detect is applied to it. *)

InitDetect ==
    /\ detectText \in TextsOf(DetectVocab, MaxFrags)
    /\ detectResult = NoResult
    /\ ScriptIdle
    /\ ClassifierIdle
    /\ ExtractorIdle
    /\ ProcessorIdle
    /\ SingletonIdle
    /\ HeapIdle
    /\ ParserIdle
    /\ FieldIdle
    /\ ValidatorIdle
    /\ SchemaIdle
    /\ ClientIdle
    /\ OcrIdle

Detect ==
    /\ detectResult = NoResult
    /\ detectResult' = detect(detectText)
    /\ UNCHANGED <<detectText, scriptText, scriptResult, classifierVars,
                   extractorVars, processorVars, singletonVars, heapVars,
                   parserVars, fieldVars, validatorVars, schemaVars,
                   clientVars, ocrVars>>

NextDetect == Detect

SpecDetect == InitDetect /\ [][NextDetect]_vars

-----------------------------------------------------------------------------
(* The script detection alone: a text is drawn, _detect_script is applied  *)
(* to it.                                                                  *)

InitScript ==
    /\ scriptText \in TextsOf(ScriptVocab, MaxFrags)
    /\ scriptResult = NoResult
    /\ detectText = <<>>
    /\ detectResult = NoResult
    /\ ClassifierIdle
    /\ ExtractorIdle
    /\ ProcessorIdle
    /\ SingletonIdle
    /\ HeapIdle
    /\ ParserIdle
    /\ FieldIdle
    /\ ValidatorIdle
    /\ SchemaIdle
    /\ ClientIdle
    /\ OcrIdle

DetectScript ==
    /\ scriptResult = NoResult
    /\ scriptResult' = [called |-> TRUE, script |-> detect_script(scriptText)]
    /\ UNCHANGED <<scriptText, detectText, detectResult, classifierVars,
                   extractorVars, processorVars, singletonVars, heapVars,
                   parserVars, fieldVars, validatorVars, schemaVars,
                   clientVars, ocrVars>>

NextScript == DetectScript

SpecScript == InitScript /\ [][NextScript]_vars

-----------------------------------------------------------------------------
(* One FieldExtractor: extract and add_custom_field are called in any      *)
(* order, with any arguments.                                              *)

InitExtract ==
    /\ self_fields \in FieldConfigs
    /\ self_custom_fields = <<>>
    /\ firstExtract = NoResult
    /\ lastExtract = NoResult
    /\ StatisticsIdle
    /\ ClassifierIdle
    /\ DetectorIdle
    /\ ProcessorIdle
    /\ SingletonIdle
    /\ HeapIdle
    /\ ParserIdle
    /\ FieldIdle
    /\ ValidatorIdle
    /\ SchemaIdle
    /\ ClientIdle
    /\ OcrIdle

AddCustomField(field_name) ==
    /\ self_custom_fields' = add_custom_field(self_custom_fields, field_name)
    /\ UNCHANGED <<self_fields, firstExtract, lastExtract, statsResults,
                   statistics, classifierVars, detectorVars, processorVars,
                   singletonVars, heapVars, parserVars, fieldVars,
                   validatorVars, schemaVars, clientVars, ocrVars>>

Extract(text, enabled, custom) ==
    \E results \in {extract(self_fields, text, enabled, custom)} :
        LET call == [called |-> TRUE, text |-> text, enabled_fields |-> enabled,
                     custom_fields |-> custom, added |-> self_custom_fields,
                     results |-> results]
        IN  /\ lastExtract' = call
            /\ firstExtract' = IF firstExtract.called THEN firstExtract ELSE call
            /\ UNCHANGED <<self_fields, self_custom_fields, statsResults,
                           statistics, classifierVars, detectorVars,
                           processorVars, singletonVars, heapVars, parserVars,
                           fieldVars, validatorVars, schemaVars, clientVars,
                           ocrVars>>

NextExtract ==
    \/ \E field_name \in CustomNames : AddCustomField(field_name)
    \/ \E text \in ExtractTexts, enabled \in EnabledArgs, custom \in CustomArgs :
          Extract(text, enabled, custom)

SpecExtract == InitExtract /\ [][NextExtract]_vars

-----------------------------------------------------------------------------
(* The statistics alone: a result map is drawn, get_statistics is applied  *)
(* to it.                                                                  *)

InitStatistics ==
    /\ \E total \in 0..MaxFields, found \in 0..MaxFields :
          found <= total /\ statsResults = ResultMap(total, found)
    /\ statistics = NoResult
    /\ self_fields = <<>>
    /\ self_custom_fields = <<>>
    /\ firstExtract = NoResult
    /\ lastExtract = NoResult
    /\ ClassifierIdle
    /\ DetectorIdle
    /\ ProcessorIdle
    /\ SingletonIdle
    /\ HeapIdle
    /\ ParserIdle
    /\ FieldIdle
    /\ ValidatorIdle
    /\ SchemaIdle
    /\ ClientIdle
    /\ OcrIdle

GetStatistics ==
    /\ statistics = NoResult
    /\ statistics' = get_statistics(statsResults)
    /\ UNCHANGED <<statsResults, self_fields, self_custom_fields,
                   firstExtract, lastExtract, classifierVars, detectorVars,
                   processorVars, singletonVars, heapVars, parserVars,
                   fieldVars, validatorVars, schemaVars, clientVars, ocrVars>>

NextStatistics == GetStatistics

SpecStatistics == InitStatistics /\ [][NextStatistics]_vars

-----------------------------------------------------------------------------
(* The singleton getters get_document_classifier and get_language_detector, *)
(* called by threads that the interpreter switches between any two steps.   *)
(* An instance is the number of its construction, 0 is None.                *)

Getters == {"get_document_classifier", "get_language_detector"}
Threads == 1..MaxThreads

\* A thread outside the getters.
Outside == [at |-> "outside", getter |-> "none", instance |-> 0]

InitSingleton ==
    /\ singleton = [g \in Getters |-> 0]
    /\ constructed = [g \in Getters |-> 0]
    /\ thread = [t \in Threads |-> Outside]
    /\ returned = [g \in Getters |-> {}]
    /\ ClassifierIdle
    /\ DetectorIdle
    /\ ExtractorIdle
    /\ ProcessorIdle
    /\ HeapIdle
    /\ ParserIdle
    /\ FieldIdle
    /\ ValidatorIdle
    /\ SchemaIdle
    /\ ClientIdle
    /\ OcrIdle

\* The thread calls a getter.
Call(t, g) ==
    /\ thread[t].at = "outside"
    /\ thread' = [thread EXCEPT ![t].at = "test", ![t].getter = g]
    /\ UNCHANGED <<singleton, constructed, returned, classifierVars,
                   detectorVars, extractorVars, processorVars, heapVars,
                   parserVars, fieldVars, validatorVars, schemaVars,
                   clientVars, ocrVars>>

\* if _classifier is None:
TestNone(t) ==
    /\ thread[t].at = "test"
    /\ thread' = [thread EXCEPT ![t].at =
                     IF singleton[thread[t].getter] = 0 THEN "construct" ELSE "return"]
    /\ UNCHANGED <<singleton, constructed, returned, classifierVars,
                   detectorVars, extractorVars, processorVars, heapVars,
                   parserVars, fieldVars, validatorVars, schemaVars,
                   clientVars, ocrVars>>

\* DocumentClassifier(): the right-hand side of the assignment.
Construct(t) ==
    /\ thread[t].at = "construct"
    /\ constructed' = [constructed EXCEPT ![thread[t].getter] = @ + 1]
    /\ thread' = [thread EXCEPT ![t].at = "assign",
                                ![t].instance = constructed[thread[t].getter] + 1]
    /\ UNCHANGED <<singleton, returned, classifierVars, detectorVars,
                   extractorVars, processorVars, heapVars, parserVars,
                   fieldVars, validatorVars, schemaVars, clientVars, ocrVars>>

\* _classifier = ...
Assign(t) ==
    /\ thread[t].at = "assign"
    /\ singleton' = [singleton EXCEPT ![thread[t].getter] = thread[t].instance]
    /\ thread' = [thread EXCEPT ![t].at = "return"]
    /\ UNCHANGED <<constructed, returned, classifierVars, detectorVars,
                   extractorVars, processorVars, heapVars, parserVars,
                   fieldVars, validatorVars, schemaVars, clientVars, ocrVars>>

\* return _classifier
Return(t) ==
    /\ thread[t].at = "return"
    /\ returned' = [returned EXCEPT ![thread[t].getter] =
                        @ \cup {singleton[thread[t].getter]}]
    /\ thread' = [thread EXCEPT ![t] = Outside]
    /\ UNCHANGED <<singleton, constructed, classifierVars, detectorVars,
                   extractorVars, processorVars, heapVars, parserVars,
                   fieldVars, validatorVars, schemaVars, clientVars, ocrVars>>

NextSingleton ==
    \E t \in Threads :
        \/ \E g \in Getters : Call(t, g)
        \/ TestNone(t)
        \/ Construct(t)
        \/ Assign(t)
        \/ Return(t)

SpecSingleton == InitSingleton /\ [][NextSingleton]_vars

-----------------------------------------------------------------------------
(* The components on a heap.  An object is its index in heap; it has an    *)
(* owner, "component", "caller" or the number of the call that allocated   *)
(* it, and a value.  A call allocates the dicts and lists its code creates *)
(* and returns the objects its result refers to.                           *)

\* The heap with a new object at its end.
Allocate(h, owner, value) == Append(h, [owner |-> owner, value |-> value])

\* all_fields = enabled_fields: the list itself, not a copy of it.
ShareList(h, source, owner) == [heap |-> h, ref |-> source]

\* all_fields = list(enabled_fields): a new list with the elements of the
\* source.
CopyList(h, source, owner) ==
    [heap |-> Allocate(h, owner, h[source].value), ref |-> Len(h) + 1]

\* The heap after the constructors: the pattern tables of the classifier
\* and of the detector, the field_config list that self.fields refers to,
\* and self._custom_fields.
InitHeap ==
    /\ configured \in FieldConfigs
    /\ heap = <<[owner |-> "component", value |-> ClassifierPatterns],
                [owner |-> "component", value |-> LanguagePatterns],
                [owner |-> "component", value |-> configured],
                [owner |-> "component", value |-> <<>>]>>
    /\ self = [classifier_patterns |-> 1, detector_patterns |-> 2,
               fields |-> 3, custom_fields |-> 4]
    /\ calls = 0
    /\ lastCall = NoResult
    /\ ClassifierIdle
    /\ DetectorIdle
    /\ ExtractorIdle
    /\ ProcessorIdle
    /\ SingletonIdle
    /\ ParserIdle
    /\ FieldIdle
    /\ ValidatorIdle
    /\ SchemaIdle
    /\ ClientIdle
    /\ OcrIdle

\* The record of a call that takes no lists.
CallOf(op, refs) ==
    [called |-> TRUE, op |-> op, number |-> calls + 1, refs |-> refs,
     enabled_fields |-> 0, enabled_before |-> <<>>,
     custom_fields |-> 0, custom_before |-> <<>>]

\* classify(text): scores = {}, keywords_found = {}, and the list that is
\* returned, found_keywords of the best type or a new [].
ClassifyOnHeap(text, op) ==
    /\ calls < MaxCalls
    /\ \E result \in {classify(text)} :
          /\ heap' = Allocate(Allocate(Allocate(heap,
                         calls + 1, result.all_scores),
                         calls + 1, "keywords_found"),
                         calls + 1, result.keywords_found)
          /\ lastCall' = CallOf(op, {Len(heap) + 1, Len(heap) + 3})
    /\ calls' = calls + 1
    /\ UNCHANGED <<self, configured, classifierVars, detectorVars,
                   extractorVars, processorVars, singletonVars, parserVars,
                   fieldVars, validatorVars, schemaVars, clientVars, ocrVars>>

\* get_supported_types() and get_supported_languages(): a list
\* comprehension.
SupportedOnHeap(op, list) ==
    /\ calls < MaxCalls
    /\ heap' = Allocate(heap, calls + 1, list)
    /\ lastCall' = CallOf(op, {Len(heap) + 1})
    /\ calls' = calls + 1
    /\ UNCHANGED <<self, configured, classifierVars, detectorVars,
                   extractorVars, processorVars, singletonVars, parserVars,
                   fieldVars, validatorVars, schemaVars, clientVars, ocrVars>>

\* detect(text): scores = {} (all_scores={} for a blank text) and
\* secondary = [] (secondary_languages=[] when there is no primary).
DetectOnHeap(text) ==
    /\ calls < MaxCalls
    /\ \E result \in {detect(text)} :
          /\ heap' = Allocate(Allocate(heap,
                         calls + 1, result.all_scores),
                         calls + 1, result.secondary_languages)
          /\ lastCall' = CallOf("detect", {Len(heap) + 1, Len(heap) + 2})
    /\ calls' = calls + 1
    /\ UNCHANGED <<self, configured, classifierVars, detectorVars,
                   extractorVars, processorVars, singletonVars, parserVars,
                   fieldVars, validatorVars, schemaVars, clientVars, ocrVars>>

\* The heap after the caller has made the list of an argument, and the
\* object the argument refers to: 0 for None.
CallerList(h, argument) ==
    IF argument.none THEN [heap |-> h, ref |-> 0]
    ELSE [heap |-> Allocate(h, "caller", argument.list), ref |-> Len(h) + 1]

\* all_fields.extend([f.strip() for f in custom_fields if f.strip()]), when
\* custom_fields is not None and not empty.
ExtendFields(h, all_fields, custom) ==
    IF custom = 0 \/ h[custom].value = <<>> THEN h
    ELSE [h EXCEPT ![all_fields].value = @ \o StrippedNames(h[custom].value)]

\* extract(text, enabled_fields, custom_fields), the lists made by the
\* caller: all_fields = list(enabled_fields), the extend, and results = {}
\* with a new FieldResult for every field.
ExtractOnHeap(text, enabled, custom) ==
    /\ calls < MaxCalls
    /\ \E passed \in {CallerList(CallerList(heap, enabled).heap, custom)} :
          LET enabled_fields == CallerList(heap, enabled).ref
              custom_fields == passed.ref
              source == IF enabled_fields = 0 THEN self.fields ELSE enabled_fields
              copied == CopyList(passed.heap, source, calls + 1)
              extended == ExtendFields(copied.heap, copied.ref, custom_fields)
          IN  /\ heap' = Allocate(extended, calls + 1,
                                  FieldResults(text, extended[copied.ref].value))
              /\ lastCall' =
                    [called |-> TRUE, op |-> "extract", number |-> calls + 1,
                     refs |-> {Len(extended) + 1},
                     enabled_fields |-> enabled_fields,
                     enabled_before |-> IF enabled.none THEN <<>> ELSE enabled.list,
                     custom_fields |-> custom_fields,
                     custom_before |-> IF custom.none THEN <<>> ELSE custom.list]
    /\ calls' = calls + 1
    /\ UNCHANGED <<self, configured, classifierVars, detectorVars,
                   extractorVars, processorVars, singletonVars, parserVars,
                   fieldVars, validatorVars, schemaVars, clientVars, ocrVars>>

NextHeap ==
    \/ \E text \in HeapTexts : ClassifyOnHeap(text, "classify")
    \/ \E text \in HeapTexts : ClassifyOnHeap(text, "classify_with_routing")
    \/ SupportedOnHeap("get_supported_types", DocTypes)
    \/ \E text \in HeapTexts : DetectOnHeap(text)
    \/ SupportedOnHeap("get_supported_languages", AllLanguages)
    \/ \E text \in HeapTexts, enabled \in EnabledArgs, custom \in CustomArgs :
          ExtractOnHeap(text, enabled, custom)

SpecHeap == InitHeap /\ [][NextHeap]_vars

-----------------------------------------------------------------------------
(* One StructuredOutputProcessor: process is called again and again, with  *)
(* any arguments.                                                          *)

InitProcess ==
    /\ firstProcess = NoResult
    /\ lastProcess = NoResult
    /\ ClassifierIdle
    /\ DetectorIdle
    /\ ExtractorIdle
    /\ SingletonIdle
    /\ HeapIdle
    /\ ParserIdle
    /\ FieldIdle
    /\ ValidatorIdle
    /\ SchemaIdle
    /\ ClientIdle
    /\ OcrIdle

Process(text, tables_html) ==
    \E done \in {process(text, tables_html)} :
        LET call == [called |-> TRUE, text |-> text, tables_html |-> tables_html,
                     result |-> done.result, stages |-> done.stages,
                     \* a call with other arguments has come after the first one
                     others |-> /\ firstProcess.called
                                /\ \/ lastProcess.called /\ lastProcess.others
                                   \/ text # firstProcess.text
                                   \/ tables_html # firstProcess.tables_html]
        IN  /\ lastProcess' = call
            /\ firstProcess' = IF firstProcess.called THEN firstProcess ELSE call
            /\ UNCHANGED <<classifierVars, detectorVars, extractorVars,
                           singletonVars, heapVars, parserVars, fieldVars,
                           validatorVars, schemaVars, clientVars, ocrVars>>

NextProcess ==
    \E text \in ProcessTexts, tables_html \in ProcessTables : Process(text, tables_html)

SpecProcess == InitProcess /\ [][NextProcess]_vars

-----------------------------------------------------------------------------
(* The table extraction alone: a text is drawn, extract_tables is applied  *)
(* to it.                                                                  *)

InitTables ==
    /\ parseText \in TextsOf(TablesVocab, MaxFrags)
    /\ tablesResult = NoResult
    /\ pagesResult = NoResult
    /\ equationsResult = NoResult
    /\ ClassifierIdle
    /\ DetectorIdle
    /\ ExtractorIdle
    /\ ProcessorIdle
    /\ SingletonIdle
    /\ HeapIdle
    /\ FieldIdle
    /\ ValidatorIdle
    /\ SchemaIdle
    /\ ClientIdle
    /\ OcrIdle

ExtractTables ==
    /\ tablesResult = NoResult
    /\ \E result \in {extract_tables(parseText)} :
          tablesResult' = [called |-> TRUE,
                           html_tables |-> result.html_tables,
                           csv_tables |-> result.csv_tables]
    /\ UNCHANGED <<parseText, pagesResult, equationsResult, classifierVars,
                   detectorVars, extractorVars, processorVars, singletonVars,
                   heapVars, fieldVars, validatorVars, schemaVars, clientVars,
                   ocrVars>>

NextTables == ExtractTables

SpecTables == InitTables /\ [][NextTables]_vars

-----------------------------------------------------------------------------
(* The extraction of one field alone: a text and a field name are drawn,   *)
(* _extract_field is applied to them.                                      *)

InitField ==
    /\ fieldText \in TextsOf(FieldVocab, MaxFrags)
    /\ fieldName \in FieldNames
    /\ fieldValue = NoResult
    /\ ClassifierIdle
    /\ DetectorIdle
    /\ ExtractorIdle
    /\ ProcessorIdle
    /\ SingletonIdle
    /\ HeapIdle
    /\ ParserIdle
    /\ ValidatorIdle
    /\ SchemaIdle
    /\ ClientIdle
    /\ OcrIdle

ExtractField ==
    /\ fieldValue = NoResult
    /\ fieldValue' = [called |-> TRUE, value |-> extract_field(fieldText, fieldName)]
    /\ UNCHANGED <<fieldText, fieldName, classifierVars, detectorVars,
                   extractorVars, processorVars, singletonVars, heapVars,
                   parserVars, validatorVars, schemaVars, clientVars, ocrVars>>

NextField == ExtractField

SpecField == InitField /\ [][NextField]_vars

-----------------------------------------------------------------------------
(* sanitize_filename alone: a filename is drawn, sanitize_filename is      *)
(* applied to it.                                                          *)

InitSanitize ==
    /\ sanitizeName \in TextsOf(FilenameVocab, MaxNameFrags)
    /\ sanitizeResult = NoResult
    /\ ClassifierIdle
    /\ DetectorIdle
    /\ ExtractorIdle
    /\ ProcessorIdle
    /\ SingletonIdle
    /\ HeapIdle
    /\ ParserIdle
    /\ FieldIdle
    /\ SchemaIdle
    /\ ClientIdle
    /\ OcrIdle

SanitizeFilename ==
    /\ sanitizeResult = NoResult
    /\ sanitizeResult' = [called |-> TRUE, filename |-> sanitize_filename(sanitizeName)]
    /\ UNCHANGED <<sanitizeName, classifierVars, detectorVars, extractorVars,
                   processorVars, singletonVars, heapVars, parserVars,
                   fieldVars, schemaVars, clientVars, ocrVars>>

NextSanitize == SanitizeFilename

SpecSanitize == InitSanitize /\ [][NextSanitize]_vars

-----------------------------------------------------------------------------
(* validate_schema alone: a schema is drawn, validate_schema is applied to *)
(* it.                                                                     *)

InitSchema ==
    /\ schemaArg \in Schemas(MaxSchemaFields)
    /\ schemaValid = NoResult
    /\ ClassifierIdle
    /\ DetectorIdle
    /\ ExtractorIdle
    /\ ProcessorIdle
    /\ SingletonIdle
    /\ HeapIdle
    /\ ParserIdle
    /\ FieldIdle
    /\ ValidatorIdle
    /\ ClientIdle
    /\ OcrIdle

ValidateSchema ==
    /\ schemaValid = NoResult
    /\ schemaValid' = [called |-> TRUE, valid |-> validate_schema(schemaArg)]
    /\ UNCHANGED <<schemaArg, classifierVars, detectorVars, extractorVars,
                   processorVars, singletonVars, heapVars, parserVars,
                   fieldVars, validatorVars, clientVars, ocrVars>>

NextSchema == ValidateSchema

SpecSchema == InitSchema /\ [][NextSchema]_vars

-----------------------------------------------------------------------------
(* parse alone: a text is drawn, parse is applied to it.                   *)

InitPages ==
    /\ parseText \in TextsOf(PagesVocab, MaxFrags)
    /\ tablesResult = NoResult
    /\ pagesResult = NoResult
    /\ equationsResult = NoResult
    /\ ClassifierIdle
    /\ DetectorIdle
    /\ ExtractorIdle
    /\ ProcessorIdle
    /\ SingletonIdle
    /\ HeapIdle
    /\ FieldIdle
    /\ ValidatorIdle
    /\ SchemaIdle
    /\ ClientIdle
    /\ OcrIdle

Parse ==
    /\ pagesResult = NoResult
    /\ pagesResult' = [called |-> TRUE, pages |-> parse(parseText)]
    /\ UNCHANGED <<parseText, tablesResult, equationsResult, classifierVars,
                   detectorVars, extractorVars, processorVars, singletonVars,
                   heapVars, fieldVars, validatorVars, schemaVars, clientVars,
                   ocrVars>>

NextPages == Parse

SpecPages == InitPages /\ [][NextPages]_vars

-----------------------------------------------------------------------------
(* extract_equations alone: a text is drawn, extract_equations is applied  *)
(* to it.                                                                  *)

InitEquations ==
    /\ parseText \in TextsOf(EquationsVocab, MaxFrags)
    /\ tablesResult = NoResult
    /\ pagesResult = NoResult
    /\ equationsResult = NoResult
    /\ ClassifierIdle
    /\ DetectorIdle
    /\ ExtractorIdle
    /\ ProcessorIdle
    /\ SingletonIdle
    /\ HeapIdle
    /\ FieldIdle
    /\ ValidatorIdle
    /\ SchemaIdle
    /\ ClientIdle
    /\ OcrIdle

ExtractEquations ==
    /\ equationsResult = NoResult
    /\ equationsResult' = [called |-> TRUE, equations |-> extract_equations(parseText)]
    /\ UNCHANGED <<parseText, tablesResult, pagesResult, classifierVars,
                   detectorVars, extractorVars, processorVars, singletonVars,
                   heapVars, fieldVars, validatorVars, schemaVars, clientVars,
                   ocrVars>>

NextEquations == ExtractEquations

SpecEquations == InitEquations /\ [][NextEquations]_vars

-----------------------------------------------------------------------------
(* get_api_client: the module is imported, then get_api_client is called   *)
(* MaxGets times, with any arguments.                                      *)

InitClient ==
    /\ _api_client = None
    /\ clients = <<>>
    /\ environ \in Environments
    /\ getCalls = <<>>
    /\ ClassifierIdle
    /\ DetectorIdle
    /\ ExtractorIdle
    /\ ProcessorIdle
    /\ SingletonIdle
    /\ HeapIdle
    /\ ParserIdle
    /\ FieldIdle
    /\ ValidatorIdle
    /\ SchemaIdle
    /\ OcrIdle

GetApiClient(base_url, api_key) ==
    /\ Len(getCalls) < MaxGets
    /\ IF Creates(_api_client, base_url, api_key)
       THEN /\ clients' = Append(clients, OCRAPIClient(environ, base_url, api_key))
            /\ _api_client' = [id |-> Len(clients) + 1]
       ELSE UNCHANGED <<clients, _api_client, ocrVars>>
    /\ getCalls' = Append(getCalls, [base_url |-> base_url, api_key |-> api_key,
                                     result |-> _api_client'])
    /\ UNCHANGED <<environ, classifierVars, detectorVars, extractorVars,
                   processorVars, singletonVars, heapVars, parserVars,
                   fieldVars, validatorVars, schemaVars, ocrVars>>

NextClient == \E base_url \in BaseUrls, api_key \in ApiKeys :
                  GetApiClient(base_url, api_key)

SpecClient == InitClient /\ [][NextClient]_vars

-----------------------------------------------------------------------------
(* POST /ocr: MaxRequests calls of process_document, which is a coroutine: *)
(* a call runs to the await of file.read(), and from there to its end.     *)

InitOcr ==
    /\ requests = [r \in 1..MaxRequests |-> NotCalled]
    /\ tmpFiles = {}
    /\ ClassifierIdle
    /\ DetectorIdle
    /\ ExtractorIdle
    /\ ProcessorIdle
    /\ SingletonIdle
    /\ HeapIdle
    /\ ParserIdle
    /\ FieldIdle
    /\ ValidatorIdle
    /\ SchemaIdle
    /\ ClientIdle

OcrFrame ==
    UNCHANGED <<classifierVars, detectorVars, extractorVars, processorVars,
                singletonVars, heapVars, parserVars, fieldVars, validatorVars,
                schemaVars, clientVars>>

\* The call begins with an unsupported extension: HTTPException 400.
RejectUpload(r, name) ==
    /\ requests[r].pc = "none"
    /\ ExtensionOf(name) \notin supported
    /\ requests' = [requests EXCEPT ![r] =
                        [pc |-> "done", filename |-> FilenameOf(name),
                         extension |-> ExtensionOf(name), created |-> FALSE,
                         status |-> 400]]
    /\ UNCHANGED tmpFiles
    /\ OcrFrame

\* The call begins with a supported extension: the temporary file is made,
\* and the call awaits file.read().
AcceptUpload(r, name) ==
    /\ requests[r].pc = "none"
    /\ ExtensionOf(name) \in supported
    /\ requests' = [requests EXCEPT ![r] =
                        [pc |-> "read", filename |-> FilenameOf(name),
                         extension |-> ExtensionOf(name), created |-> TRUE,
                         status |-> 0]]
    /\ tmpFiles' = tmpFiles \cup {TempFile(r)}
    /\ OcrFrame

\* file.read() raises, or tmp.write(content) does: the with statement
\* closes the file, which was made with delete=False, and the exception
\* leaves the handler before its try statement; the server answers 500.
UploadFails(r) ==
    /\ requests[r].pc = "read"
    /\ requests' = [requests EXCEPT ![r] = Ended(@, 500)]
    /\ UNCHANGED tmpFiles
    /\ OcrFrame

\* The upload is written; an exception in the try statement becomes
\* HTTPException 500, and the finally clause removes the file.
ProcessingFails(r) ==
    /\ requests[r].pc = "read"
    /\ requests' = [requests EXCEPT ![r] = Ended(@, 500)]
    /\ tmpFiles' = tmpFiles \ {TempFile(r)}
    /\ OcrFrame

\* The upload is written and processed: the response is returned, and the
\* finally clause removes the file.
Responds(r) ==
    /\ requests[r].pc = "read"
    /\ requests' = [requests EXCEPT ![r] = Ended(@, 200)]
    /\ tmpFiles' = tmpFiles \ {TempFile(r)}
    /\ OcrFrame

NextOcr ==
    \E r \in 1..MaxRequests :
        \/ \E name \in UploadNames : RejectUpload(r, name)
        \/ \E name \in UploadNames : AcceptUpload(r, name)
        \/ UploadFails(r)
        \/ ProcessingFails(r)
        \/ Responds(r)

SpecOcr == InitOcr /\ [][NextOcr]_vars

-----------------------------------------------------------------------------
(* Properties of DocumentClassifier.classify, under SpecClassify *)

\* The largest of the scores.
LargestScore(scores) ==
    CHOOSE s \in {scores[t] : t \in DOMAIN scores} :
        \A t \in DOMAIN scores : FLe(scores[t], s)

\* C1: classify returns a confidence in [0,1], and the confidence is 0 if and
\* only if document_type is UNKNOWN.
C1_ConfidenceRange ==
    classifyResult.called =>
        /\ FLe(FZero, classifyResult.confidence)
        /\ FLe(classifyResult.confidence, FOne)
        /\ FEq(classifyResult.confidence, FZero)
               <=> classifyResult.document_type = "unknown"

\* A classification whose doubled best score is above 1 and is capped.
C1_Witness ==
    /\ classifyResult.called
    /\ classifyResult.document_type # "unknown"
    /\ FEq(classifyResult.confidence, FOne)
    /\ FGt(LargestScore(classifyResult.all_scores), Frac(1, 2))

\* The order of the document types the specification states.
DeclaredOrder == <<"invoice", "receipt", "contract", "form", "letter", "report",
                   "id_document", "bank_statement", "tax_document", "medical">>

DeclaredIndex(t) == CHOOSE i \in 1..Len(DeclaredOrder) : DeclaredOrder[i] = t

\* C6: when classify does not return UNKNOWN, document_type has the highest
\* normalized score, and every type declared before it has a strictly lower
\* score (of the types sharing the highest score the first declared is chosen).
C6_HighestFirstDeclared ==
    (classifyResult.called /\ classifyResult.document_type # "unknown") =>
        LET scores == classifyResult.all_scores
            w == classifyResult.document_type
        IN  /\ DOMAIN scores = {DeclaredOrder[i] : i \in 1..Len(DeclaredOrder)}
            /\ \A i \in 1..Len(DeclaredOrder) :
                  /\ FLe(scores[DeclaredOrder[i]], scores[w])
                  /\ i < DeclaredIndex(w) => FLt(scores[DeclaredOrder[i]], scores[w])

\* Two types share the highest score and the result is not UNKNOWN.
C6_Witness ==
    /\ classifyResult.called
    /\ classifyResult.document_type # "unknown"
    /\ \E t \in DOMAIN classifyResult.all_scores :
          /\ t # classifyResult.document_type
          /\ FEq(classifyResult.all_scores[t],
                 classifyResult.all_scores[classifyResult.document_type])

\* C7: classify returns UNKNOWN with confidence 0 and no keywords exactly when
\* the best normalized score is below 0.1; otherwise its confidence is
\* min(2 * best, 1.0).
C7_MinimumConfidence ==
    classifyResult.called =>
        LET best == LargestScore(classifyResult.all_scores)
            unknown == /\ classifyResult.document_type = "unknown"
                       /\ FEq(classifyResult.confidence, FZero)
                       /\ classifyResult.keywords_found = <<>>
        IN  /\ unknown <=> FLt(best, Frac(1, 10))
            /\ ~unknown =>
                  /\ classifyResult.document_type # "unknown"
                  /\ FEq(classifyResult.confidence,
                         IF FLt(FOne, Frac(2 * best.n, best.d))
                         THEN FOne ELSE Frac(2 * best.n, best.d))

\* The best score is exactly 0.1 and the document is classified.
C7_Witness ==
    /\ classifyResult.called
    /\ FEq(LargestScore(classifyResult.all_scores), Frac(1, 10))
    /\ classifyResult.document_type # "unknown"
    /\ FEq(classifyResult.confidence, Frac(1, 5))

\* kw occurs in text as a substring, letter case ignored.
OccursIgnoringCase(text, kw) ==
    \E p \in 0..(Len(text) - Len(kw)) :
        \A i \in 1..Len(kw) : ToLower(text[p + i]) = ToLower(kw[i])

\* weight * (K + 2P) / (len(keywords) + 2 len(patterns)), the patterns
\* searched in `searched`.
ScoreFormula(config, text, searched) ==
    LET K == Cardinality({i \in 1..Len(config.keywords) :
                             OccursIgnoringCase(text, config.keywords[i])})
        P == Cardinality({j \in 1..Len(config.patterns) :
                             Search(config.patterns[j], searched)})
    IN  Frac(config.weight * (K + 2 * P),
             10 * (Len(config.keywords) + 2 * Len(config.patterns)))

\* C8 as stated: P counts the patterns that match the text.
C8_Original ==
    classifyResult.called =>
        \A t \in DOMAIN classifyResult.all_scores :
            FEq(classifyResult.all_scores[t],
                ScoreFormula(ClassifierPatterns[t], classifyText, classifyText))

\* C8, amended: all_scores[T] = weight(T) * (K + 2P) / (len(keywords(T)) +
\* 2 len(patterns(T))), K the keywords of T occurring in the text letter case
\* ignored, P the patterns of T that match the lower-cased text; every score
\* lies in [0,1].
C8_ScoreFormula ==
    classifyResult.called =>
        \A t \in DOMAIN classifyResult.all_scores :
            /\ FEq(classifyResult.all_scores[t],
                   ScoreFormula(ClassifierPatterns[t], classifyText, Lower(classifyText)))
            /\ FLe(FZero, classifyResult.all_scores[t])
            /\ FLe(classifyResult.all_scores[t], FOne)

\* A pattern of the winning type matches the lower-cased text only.
C8_Witness ==
    /\ classifyResult.called
    /\ classifyResult.document_type # "unknown"
    /\ LET config == ClassifierPatterns[classifyResult.document_type]
       IN  \E j \in 1..Len(config.patterns) :
              /\ Search(config.patterns[j], Lower(classifyText))
              /\ ~Search(config.patterns[j], classifyText)

\* C18: classify_with_routing returns the ClassificationResult of classify
\* on the text and a schema name: "invoice", "receipt", "contract",
\* "bank_statement", "tax_document" or "medical" when that is the winning
\* type, "general" for FORM, LETTER, REPORT, ID_DOCUMENT and UNKNOWN.
C18_Routing ==
    (classifyResult.called /\ routingResult.called) =>
        /\ routingResult.result = classifyResult
        /\ routingResult.suggested_schema =
              CASE classifyResult.document_type = "invoice" -> "invoice"
                [] classifyResult.document_type = "receipt" -> "receipt"
                [] classifyResult.document_type = "contract" -> "contract"
                [] classifyResult.document_type = "bank_statement" -> "bank_statement"
                [] classifyResult.document_type = "tax_document" -> "tax_document"
                [] classifyResult.document_type = "medical" -> "medical"
                [] classifyResult.document_type
                      \in {"form", "letter", "report", "id_document", "unknown"} -> "general"

\* A text whose winning type has no schema of its own.
C18_Witness ==
    /\ classifyResult.called
    /\ routingResult.called
    /\ classifyResult.document_type \in {"form", "letter", "report", "id_document"}
    /\ routingResult.suggested_schema = "general"

-----------------------------------------------------------------------------
(* Properties of LanguageDetector.detect, under SpecDetect *)

\* The text is empty or holds whitespace only.
BlankText(text) == \A i \in 1..Len(text) : text[i] \in {" ", "\n", "\t"}

\* C2: detect returns a confidence in [0,1]; primary_language is UNKNOWN if
\* and only if the text is blank or every per-language score is zero, and if
\* and only if the confidence is 0.
C2_LanguageConfidence ==
    detectResult.called =>
        LET unknown == detectResult.primary_language = "unknown"
        IN  /\ FLe(FZero, detectResult.confidence)
            /\ FLe(detectResult.confidence, FOne)
            /\ unknown <=>
                  \/ BlankText(detectText)
                  \/ \A l \in DOMAIN detectResult.all_scores :
                        FEq(detectResult.all_scores[l], FZero)
            /\ unknown <=> FEq(detectResult.confidence, FZero)

\* A text that is not blank and scores zero for every language.
C2_Witness ==
    /\ detectResult.called
    /\ ~BlankText(detectText)
    /\ DOMAIN detectResult.all_scores # {}
    /\ \A l \in DOMAIN detectResult.all_scores : FEq(detectResult.all_scores[l], FZero)
    /\ detectResult.primary_language = "unknown"

\* The characters of a word: letters, digits, the underscore, and the
\* combining signs written on a letter.
WordLike == Word \cup {"u093E", "u0948", "u0E35", "u0E48"}

\* word occurs in text as a whole word, letter case ignored: an occurrence
\* with no character of a word right before or right after it.
OccursAsWholeWord(text, word) ==
    \E p \in 0..(Len(text) - Len(word)) :
        /\ \A i \in 1..Len(word) : ToLower(text[p + i]) = ToLower(word[i])
        /\ p >= 1 => text[p] \notin WordLike
        /\ p + Len(word) < Len(text) => text[p + Len(word) + 1] \notin WordLike

RECURSIVE SumOccurrences(_, _, _)
SumOccurrences(patterns, text, i) ==
    IF i > Len(patterns) THEN 0
    ELSE CountMatches(patterns[i], Lower(text), 0) + SumOccurrences(patterns, text, i + 1)

\* m * (W + 0.5 O) / (#common_words + 5 #patterns)
LanguageFormula(config, text, script) ==
    LET W == Cardinality({i \in 1..Len(config.common_words) :
                             OccursAsWholeWord(text, config.common_words[i])})
        O == SumOccurrences(config.patterns, text, 1)
    IN  Frac((2 * W + O) * (IF config.script = script THEN 3 ELSE 2),
             4 * (Len(config.common_words) + 5 * Len(config.patterns)))

\* C9: for a text that is not blank and every language L of the table,
\* all_scores[L] = m * (W + 0.5 O) / (#common_words(L) + 5 #patterns(L)), W
\* the common words of L occurring as a whole word, O the match occurrences
\* of the patterns of L, m = 1.5 when the script of L is the detected script
\* and 1 otherwise.
C9_LanguageScore ==
    (detectResult.called /\ ~BlankText(detectText)) =>
        /\ DOMAIN detectResult.all_scores = {LangCodes[i] : i \in 1..Len(LangCodes)}
        /\ \A l \in DOMAIN detectResult.all_scores :
              FEq(detectResult.all_scores[l],
                  LanguageFormula(LanguagePatterns[l], detectText,
                                  detectResult.script_detected))

LangIndex(l) == CHOOSE i \in 1..Len(LangCodes) : LangCodes[i] = l

\* The place of language l in the ranking by descending score, equal scores
\* in table order.
Rank(scores, l) ==
    1 + Cardinality({m \in DOMAIN scores :
                        \/ FGt(scores[m], scores[l])
                        \/ FEq(scores[m], scores[l]) /\ LangIndex(m) < LangIndex(l)})

ByRank(scores, k) == CHOOSE l \in DOMAIN scores : Rank(scores, l) = k

\* C10: languages are ranked by descending score, equal scores in table
\* order; when the top score is > 0 the primary language is the top-ranked
\* one with confidence min(2 * score, 1.0) and secondary_languages is the
\* languages ranked 2nd to 4th whose score is > 0.1, in rank order; it has at
\* most 3 entries, never holds the primary language, and is_multilingual is
\* true if and only if it is non-empty.
C10_Ranking ==
    detectResult.called =>
        LET scores == detectResult.all_scores
            secondary == detectResult.secondary_languages
        IN  /\ Len(secondary) <= 3
            /\ \A i \in 1..Len(secondary) : secondary[i] # detectResult.primary_language
            /\ detectResult.is_multilingual <=> secondary # <<>>
            /\ (DOMAIN scores # {} /\ FGt(scores[ByRank(scores, 1)], FZero)) =>
                  LET top == ByRank(scores, 1)
                  IN  /\ detectResult.primary_language = top
                      /\ FEq(detectResult.confidence,
                             IF FLt(FOne, Frac(2 * scores[top].n, scores[top].d))
                             THEN FOne ELSE Frac(2 * scores[top].n, scores[top].d))
                      /\ secondary =
                            SelectSeq(<<ByRank(scores, 2), ByRank(scores, 3),
                                        ByRank(scores, 4)>>,
                                      LAMBDA l : FGt(scores[l], Frac(1, 10)))

\* There is a secondary language, and two of the languages ranked 2nd to 4th
\* share a score above zero, one of them a secondary language or at the
\* limit of 0.1.
C10_Witness ==
    /\ detectResult.called
    /\ Len(detectResult.secondary_languages) >= 1
    /\ \E i \in 2..3 :
          LET a == ByRank(detectResult.all_scores, i)
              b == ByRank(detectResult.all_scores, i + 1)
          IN  /\ FEq(detectResult.all_scores[a], detectResult.all_scores[b])
              /\ FLe(FTenth, detectResult.all_scores[a])
              /\ LangIndex(a) < LangIndex(b)

\* The languages that have an entry in the pattern table of the detector.
TableLanguages ==
    {"en", "es", "fr", "de", "it", "pt", "nl", "ru", "zh", "ja", "ko", "ar", "hi", "th"}

\* The languages get_supported_languages lists besides them.
OtherLanguages ==
    {"vi", "id", "ms", "tr", "pl", "sv", "no", "da", "fi", "el", "he", "cs", "ro", "hu",
     "uk"}

\* C28: the primary language detect returns is one of the 14 languages of
\* the pattern table or UNKNOWN, and every secondary language is one of the
\* 14; the other 15 codes of get_supported_languages are never detected; and
\* all_scores has the 14 languages of the table as its keys when the text is
\* not blank.
C28_TableLanguages ==
    detectResult.called =>
        /\ detectResult.primary_language \in TableLanguages \cup {"unknown"}
        /\ \A i \in 1..Len(detectResult.secondary_languages) :
              detectResult.secondary_languages[i] \in TableLanguages
        /\ {AllLanguages[i] : i \in 1..Len(AllLanguages)}
              = TableLanguages \cup OtherLanguages
        /\ TableLanguages \cap OtherLanguages = {}
        /\ Cardinality(TableLanguages) = 14 /\ Cardinality(OtherLanguages) = 15
        /\ detectResult.primary_language \notin OtherLanguages
        /\ \A i \in 1..Len(detectResult.secondary_languages) :
              detectResult.secondary_languages[i] \notin OtherLanguages
        /\ ~BlankText(detectText) => DOMAIN detectResult.all_scores = TableLanguages

\* A text in Greek letters, whose language is listed by
\* get_supported_languages: its script is detected, its language is UNKNOWN.
C28_Witness ==
    /\ detectResult.called
    /\ \E i \in 1..Len(detectText) : detectText[i] = "u03B1"
    /\ detectResult.script_detected = "greek"
    /\ detectResult.primary_language = "unknown"
    /\ DOMAIN detectResult.all_scores = TableLanguages

-----------------------------------------------------------------------------
(* Properties of FieldExtractor.extract *)

\* The latest call of extract has the arguments of the first one.
SameArguments ==
    /\ firstExtract.called
    /\ lastExtract.text = firstExtract.text
    /\ lastExtract.enabled_fields = firstExtract.enabled_fields
    /\ lastExtract.custom_fields = firstExtract.custom_fields

LabelMatch(text, label, p, k) ==
    LET q == p + Len(label)
    IN  /\ k >= 1
        /\ q + k < Len(text)
        /\ \A i \in 1..Len(label) : ToLower(text[p + i]) = ToLower(label[i])
        /\ \A i \in 1..k : text[q + i] \in {":", " ", "\n", "\t"}
        /\ text[q + k + 1] # "\n"

\* The label matches somewhere in the text.
LabelMatches(text, label) ==
    \E p \in 0..Len(text), k \in 1..Len(text) : LabelMatch(text, label, p, k)

\* The rest of the line after the leftmost match of the label, the match
\* taking as many colon and whitespace characters as it can.
RestOfLine(text, label) ==
    LET p == CHOOSE x \in 0..Len(text) :
                 /\ \E k \in 1..Len(text) : LabelMatch(text, label, x, k)
                 /\ \A y \in 0..(x - 1), k \in 1..Len(text) : ~LabelMatch(text, label, y, k)
        k == CHOOSE x \in 1..Len(text) :
                 /\ LabelMatch(text, label, p, x)
                 /\ \A y \in (x + 1)..Len(text) : ~LabelMatch(text, label, p, y)
        from == p + Len(label) + k + 1
        to == CHOOSE e \in from..Len(text) :
                  /\ \A i \in from..e : text[i] # "\n"
                  /\ e < Len(text) => text[e + 1] = "\n"
    IN  SubSeq(text, from, to)

\* The text without the whitespace at its ends.
Trimmed(str) ==
    LET inner == {i \in 1..Len(str) : str[i] \notin {" ", "\n", "\t"}}
    IN  IF inner = {} THEN <<>>
        ELSE SubSeq(str, CHOOSE i \in inner : \A j \in inner : i <= j,
                         CHOOSE i \in inner : \A j \in inner : j <= i)

\* The three labels of a field name: verbatim, lower-cased, spaces removed.
ThreeLabels(name) ==
    <<name, [i \in 1..Len(name) |-> ToLower(name[i])],
      SelectSeq(name, LAMBDA c : c # " ")>>

\* C12: the value of a field is the trimmed rest of the line of the first of
\* the three label patterns (verbatim, lower-cased, spaces removed; letter
\* case ignored) that matches; when none matches the value is "" and found
\* is false.
C12_FirstLabelWins ==
    lastExtract.called =>
        \A name \in DOMAIN lastExtract.results :
            LET labels == ThreeLabels(name)
                hits == {i \in 1..3 : LabelMatches(lastExtract.text, labels[i])}
                result == lastExtract.results[name]
            IN  IF hits = {}
                THEN result.value = <<>> /\ ~result.found
                ELSE result.value =
                        Trimmed(RestOfLine(lastExtract.text,
                                           labels[CHOOSE i \in hits : \A j \in hits : i <= j]))

\* The label without spaces stands first in the text and the verbatim label
\* after it: the value is the one after the verbatim label.
C12_Witness ==
    /\ lastExtract.called
    /\ NameTaxId \in DOMAIN lastExtract.results
    /\ LabelMatches(lastExtract.text, ThreeLabels(NameTaxId)[3])
    /\ LabelMatches(lastExtract.text, NameTaxId)
    /\ lastExtract.results[NameTaxId].value = <<"2">>

\* h mod 15 of the field names, h the first 32 bits of the md5 of the name.
HashMod15(name) ==
    CASE name = NameTotal -> 4
      [] name = NameInvoiceNumber -> 6
      [] name = NameTaxId -> 3

\* C13: the confidence of a FieldResult is 0.0 when the field is not found
\* and 0.85 + (h mod 15)/100 when it is, h a hash of the field name alone:
\* it lies in [0.85, 1.0) and is the same in every text the field is found
\* in.
C13_FieldConfidence ==
    lastExtract.called =>
        \A name \in DOMAIN lastExtract.results :
            LET result == lastExtract.results[name]
            IN  /\ ~result.found => FEq(result.confidence, FZero)
                /\ result.found =>
                      /\ FEq(result.confidence, Frac(85 + HashMod15(name), 100))
                      /\ FLe(Frac(85, 100), result.confidence)
                      /\ FLt(result.confidence, FOne)
                      /\ (name \in DOMAIN firstExtract.results
                            /\ firstExtract.results[name].found) =>
                             FEq(result.confidence, firstExtract.results[name].confidence)

\* A field is found in two texts, with two values.
C13_Witness ==
    /\ lastExtract.called
    /\ lastExtract.text # firstExtract.text
    /\ \E name \in DOMAIN lastExtract.results \cap DOMAIN firstExtract.results :
          /\ lastExtract.results[name].found
          /\ firstExtract.results[name].found
          /\ lastExtract.results[name].value # firstExtract.results[name].value

\* The elements of a list.
Elements(list) == {list[i] : i \in 1..Len(list)}

\* The label occurs in the text, letter case ignored.
LabelOccurs(text, label) ==
    \E p \in 0..(Len(text) - Len(label)) :
        \A i \in 1..Len(label) : ToLower(text[p + i]) = ToLower(label[i])

\* C14: the keys of the result of extract are the names in enabled_fields
\* (the configured fields when it is None, none when it is an empty list)
\* and the trimmed custom_fields names that are not blank; a field that does
\* not occur in the text is a key with value "" and found false.
C14_ResultKeys ==
    lastExtract.called =>
        /\ DOMAIN lastExtract.results =
              (IF lastExtract.enabled_fields = None THEN Elements(self_fields)
               ELSE Elements(lastExtract.enabled_fields.list))
              \cup (IF lastExtract.custom_fields = None THEN {}
                    ELSE {Trimmed(name) : name \in Elements(lastExtract.custom_fields.list)}
                             \ {<<>>})
        /\ \A name \in DOMAIN lastExtract.results :
              (\A i \in 1..3 : ~LabelOccurs(lastExtract.text, ThreeLabels(name)[i])) =>
                  /\ lastExtract.results[name].value = <<>>
                  /\ ~lastExtract.results[name].found

\* enabled_fields is an empty list, the custom names have spaces around them
\* and one is blank, and the one key does not occur in the text.
C14_Witness ==
    /\ lastExtract.called
    /\ lastExtract.enabled_fields = Some(<<>>)
    /\ lastExtract.custom_fields # None
    /\ DOMAIN lastExtract.results = {NameTaxId}
    /\ ~LabelOccurs(lastExtract.text, NameTaxId)
    /\ ~lastExtract.results[NameTaxId].found

\* C25: add_custom_field adds a custom field for extraction: a call of
\* extract without custom_fields that follows add_custom_field(name), name not
\* empty, has name among the keys of its result.
C25_AddedFieldExtracted ==
    (lastExtract.called /\ lastExtract.custom_fields = None) =>
        \A i \in 1..Len(lastExtract.added) :
            lastExtract.added[i] \in DOMAIN lastExtract.results

\* The patterns of a field name that match the text, by their numbers.
MatchingPatterns(text, name) ==
    {i \in 1..3 : LabelMatches(text, ThreeLabels(name)[i])}

\* The first pattern of a field name that matches the text captures
\* whitespace alone.
FirstCapturesBlank(text, name) ==
    LET hits == MatchingPatterns(text, name)
    IN  /\ hits # {}
        /\ Trimmed(RestOfLine(text, ThreeLabels(name)[CHOOSE i \in hits :
                                                         \A j \in hits : i <= j]))
              = <<>>

\* C26: every FieldResult of extract has found true exactly when its value
\* is not empty and exactly when its confidence is above 0; its value has no
\* line break and no whitespace at its ends.  When the first pattern that
\* matches captures whitespace alone, the field is not found, whatever the
\* remaining patterns would capture.
C26_FieldResult ==
    lastExtract.called =>
        \A name \in DOMAIN lastExtract.results :
            LET result == lastExtract.results[name]
            IN  /\ result.found <=> result.value # <<>>
                /\ result.found <=> FGt(result.confidence, FZero)
                /\ \A i \in 1..Len(result.value) : result.value[i] # "\n"
                /\ result.value # <<>> =>
                      /\ result.value[1] \notin {" ", "\n", "\t"}
                      /\ result.value[Len(result.value)] \notin {" ", "\n", "\t"}
                /\ FirstCapturesBlank(lastExtract.text, name) =>
                      ~result.found /\ result.value = <<>>

\* The verbatim label ends the text but for a colon and a space, and the
\* label without spaces has a value earlier in the text: the field is not
\* found.
C26_Witness ==
    /\ lastExtract.called
    /\ NameTaxId \in DOMAIN lastExtract.results
    /\ FirstCapturesBlank(lastExtract.text, NameTaxId)
    /\ MatchingPatterns(lastExtract.text, NameTaxId) = {1, 2, 3}
    /\ Trimmed(RestOfLine(lastExtract.text, ThreeLabels(NameTaxId)[3])) = <<"5">>
    /\ ~lastExtract.results[NameTaxId].found
    /\ FEq(lastExtract.results[NameTaxId].confidence, FZero)

-----------------------------------------------------------------------------
(* Properties of FieldExtractor.get_statistics *)

\* C15: get_statistics returns total_fields = the number of entries,
\* fields_found = the number of entries that are found, fields_empty =
\* total_fields - fields_found and success_rate = fields_found /
\* total_fields * 100 rounded to one decimal, 0 for an empty map.
C15_Statistics ==
    statistics.called =>
        LET total == Cardinality(DOMAIN statsResults)
            found == Cardinality({f \in DOMAIN statsResults : statsResults[f].found})
            rate == statistics.success_rate
        IN  /\ statistics.total_fields = total
            /\ statistics.fields_found = found
            /\ statistics.fields_empty = total - found
            /\ total = 0 => FEq(rate, FZero)
            /\ total > 0 =>
                  \* a number of tenths, at most half a tenth from the quotient
                  /\ rate.d = 10
                  /\ 2 * (rate.n * total - 1000 * found) <= total
                  /\ 2 * (1000 * found - rate.n * total) <= total

\* Two of three fields are found: the rate is 66.7.
C15_Witness ==
    /\ statistics.called
    /\ statistics.total_fields = 3
    /\ statistics.fields_found = 2
    /\ statistics.success_rate = Frac(667, 10)

-----------------------------------------------------------------------------
(* Properties of StructuredOutputProcessor.process *)

\* C3: process on an empty or blank text returns the zero-value result
\* (document_type UNKNOWN, confidence 0, no extracted fields, no line items,
\* no entities, raw.text the input) and runs none of the later stages,
\* whatever tables are supplied.
C3_BlankZeroValue ==
    (lastProcess.called /\ BlankText(lastProcess.text)) =>
        /\ lastProcess.result.document_type = "unknown"
        /\ FEq(lastProcess.result.confidence, FZero)
        /\ DOMAIN lastProcess.result.extracted_fields = {}
        /\ lastProcess.result.line_items = <<>>
        /\ lastProcess.result.entities = <<>>
        /\ lastProcess.result.raw.text = lastProcess.text
        /\ lastProcess.stages = <<>>

\* A blank text that is not empty was processed, with a table that has line
\* items.
C3_Witness ==
    /\ lastProcess.called
    /\ lastProcess.text # <<>>
    /\ BlankText(lastProcess.text)
    /\ lastProcess.tables_html = <<WidgetTable>>
    /\ lastProcess.stages = <<>>

\* The latest call of process has the arguments of the first one.
SameProcessArguments ==
    /\ firstProcess.called
    /\ lastProcess.text = firstProcess.text
    /\ lastProcess.tables_html = firstProcess.tables_html

KeywordColumn(table, keywords) ==
    LET cols == {i \in 1..Len(table.header) :
                    \E kw \in keywords : LabelOccurs(table.header[i], kw)}
    IN  IF cols = {} THEN 0 ELSE CHOOSE i \in cols : \A j \in cols : i <= j

\* The cell of a body row in a column, "" without one.
BodyCell(table, r, col) ==
    IF col >= 1 /\ col <= Len(table.body[r]) THEN table.body[r][col] ELSE <<>>

\* The body rows of a table that have a usable description, in row order.
UsableRows(table) ==
    LET col == KeywordColumn(table, {<<"d", "e", "s", "c", "r", "i", "p", "t", "i", "o", "n">>, <<"i", "t", "e", "m">>})
    IN  SelectSeq([r \in 1..Len(table.body) |-> r],
                  LAMBDA r : \E i \in 1..Len(BodyCell(table, r, col)) :
                                 BodyCell(table, r, col)[i] \notin {" ", "\n", "\t"})

\* The description and the quantity of the usable rows of the tables, in
\* table order and row order.
RECURSIVE ExpectedItems(_)
ExpectedItems(tables) ==
    IF tables = <<>> THEN <<>>
    ELSE LET table == Head(tables)
             rows == UsableRows(table)
         IN  [k \in 1..Len(rows) |->
                 [description |->
                      BodyCell(table, rows[k],
                               KeywordColumn(table, {<<"d", "e", "s", "c", "r", "i", "p", "t", "i", "o", "n">>, <<"i", "t", "e", "m">>})),
                  quantity |->
                      BodyCell(table, rows[k],
                               KeywordColumn(table, {<<"q", "u", "a", "n", "t", "i", "t", "y">>, <<"q", "t", "y">>}))]]
             \o ExpectedItems(Tail(tables))

-----------------------------------------------------------------------------
(* Properties of LanguageDetector._detect_script *)

\* The Unicode range of each script, in the fixed order of the scripts.
ScriptRange ==
    <<[script |-> "latin", lo |-> 0, hi |-> 591],
      [script |-> "cyrillic", lo |-> 1024, hi |-> 1279],
      [script |-> "arabic", lo |-> 1536, hi |-> 1791],
      [script |-> "cjk", lo |-> 19968, hi |-> 40959],
      [script |-> "hangul", lo |-> 44032, hi |-> 55215],
      [script |-> "devanagari", lo |-> 2304, hi |-> 2431],
      [script |-> "thai", lo |-> 3584, hi |-> 3711],
      [script |-> "japanese", lo |-> 12352, hi |-> 12543],
      [script |-> "hebrew", lo |-> 1424, hi |-> 1535],
      [script |-> "greek", lo |-> 880, hi |-> 1023]>>

\* The number of characters of the text in the k-th range.
InScript(text, k) ==
    Cardinality({i \in 1..Len(text) :
                    /\ CodePoint[text[i]] >= ScriptRange[k].lo
                    /\ CodePoint[text[i]] <= ScriptRange[k].hi})

\* C11: _detect_script returns the script whose range holds the most
\* characters of the text, on equal counts the earliest in the order latin,
\* cyrillic, arabic, cjk, hangul, devanagari, thai, japanese, hebrew, greek;
\* a text with no character in any range gives "latin".
C11_DominantScript ==
    scriptResult.called =>
        \E k \in 1..Len(ScriptRange) :
            /\ scriptResult.script = ScriptRange[k].script
            /\ \A j \in 1..Len(ScriptRange) :
                  /\ InScript(scriptText, j) <= InScript(scriptText, k)
                  /\ j < k => InScript(scriptText, j) < InScript(scriptText, k)
            /\ (\A j \in 1..Len(ScriptRange) : InScript(scriptText, j) = 0) => k = 1

\* Two scripts other than latin have one character each, the later script
\* first in the text, and the earlier one is returned.
C11_Witness ==
    /\ scriptResult.called
    /\ scriptText = <<"u03B1", "u0645">>
    /\ scriptResult.script = "arabic"

-----------------------------------------------------------------------------
(* Properties of the singleton getters *)

\* C16: the lazy singletons are initialized race-free: however the calls of
\* get_document_classifier (and of get_language_detector) interleave, one
\* instance at most is constructed and every call returns that instance.
C16_OneInstance ==
    thread # <<>> =>
        \A g \in Getters :
            /\ constructed[g] <= 1
            /\ Cardinality(returned[g]) <= 1

-----------------------------------------------------------------------------
(* Properties of the components on the heap *)

\* C17: the components are stateless after construction: no call of
\* classify, classify_with_routing, get_supported_types, detect,
\* get_supported_languages or extract changes the pattern tables or the
\* configured field list, extract leaves the enabled_fields and
\* custom_fields lists of its caller as they were, and the maps and lists a
\* call returns are allocated by that call, shared neither with the
\* component nor with an earlier result.
C17_Stateless ==
    lastCall.called =>
        /\ self = [classifier_patterns |-> 1, detector_patterns |-> 2,
                   fields |-> 3, custom_fields |-> 4]
        /\ heap[self.classifier_patterns].value = ClassifierPatterns
        /\ heap[self.detector_patterns].value = LanguagePatterns
        /\ heap[self.fields].value = configured
        /\ lastCall.enabled_fields # 0 =>
              heap[lastCall.enabled_fields].value = lastCall.enabled_before
        /\ lastCall.custom_fields # 0 =>
              heap[lastCall.custom_fields].value = lastCall.custom_before
        /\ \A ref \in lastCall.refs : heap[ref].owner = lastCall.number

\* extract is called after another call, with enabled_fields None and custom
\* fields that extend the list of all fields.
C17_Witness ==
    /\ lastCall.called
    /\ lastCall.op = "extract"
    /\ lastCall.number = 2
    /\ lastCall.enabled_fields = 0
    /\ lastCall.custom_fields # 0
    /\ \E ref \in lastCall.refs : NameTaxId \in DOMAIN heap[ref].value \ Elements(configured)

-----------------------------------------------------------------------------
(* Properties of OutputParser.extract_tables *)

\* The positions of text where a string stands.
Occurrences(text, str) == {p \in 0..Len(text) : LitAt(text, p, str)}

\* A <table>...</table> region lies within the positions lo..hi of text.
RegionWithin(text, lo, hi) ==
    \E p \in Occurrences(text, <<"<", "t", "a", "b", "l", "e", ">">>) :
        \E q \in Occurrences(text, <<"<", "/", "t", "a", "b", "l", "e", ">">>) :
            lo <= p /\ p + 7 <= q /\ q + 8 <= hi

\* The parts of a text between the occurrences of a separator character.
RECURSIVE SplitOn(_, _)
SplitOn(text, sep) ==
    LET ps == {i \in 1..Len(text) : text[i] = sep}
    IN  IF ps = {} THEN <<text>>
        ELSE LET i == CHOOSE j \in ps : \A k \in ps : j <= k
             IN  <<SubSeq(text, 1, i - 1)>>
                 \o SplitOn(SubSeq(text, i + 1, Len(text)), sep)

\* The positions of the opening cell tags of a block that follow exactly r
\* opening row tags.
CellsOfRow(block, r) ==
    {p \in Occurrences(block, <<"<", "t", "d", ">">>) \cup Occurrences(block, <<"<", "t", "h", ">">>) :
        Cardinality({q \in Occurrences(block, <<"<", "t", "r", ">">>) : q < p}) = r}

\* The text of the cell opened at position p of a block: up to the next
\* closing cell tag.
CellText(block, p) ==
    LET ends == {q \in (Occurrences(block, <<"<", "/", "t", "d", ">">>)
                        \cup Occurrences(block, <<"<", "/", "t", "h", ">">>)) : q >= p + 4}
    IN  SubSeq(block, p + 5, CHOOSE q \in ends : \A e \in ends : q <= e)

\* The elements of a set of numbers, in increasing order.
RECURSIVE Ascending(_)
Ascending(ps) ==
    IF ps = {} THEN <<>>
    ELSE LET p == CHOOSE x \in ps : \A y \in ps : x <= y
         IN  <<p>> \o Ascending(ps \ {p})

\* The CSV block joins the cells of each row of the HTML block with commas
\* and the rows with newlines.
CsvOfBlock(csv, block) ==
    LET rows == Cardinality(Occurrences(block, <<"<", "t", "r", ">">>))
        lines == IF csv = <<>> THEN <<>> ELSE SplitOn(csv, "\n")
    IN  /\ Len(lines) = rows
        /\ \A r \in 1..rows :
              LET cells == Ascending(CellsOfRow(block, r))
              IN  SplitOn(lines[r], ",")
                      = [c \in 1..Len(cells) |-> CellText(block, cells[c])]

\* C20: extract_tables returns two lists of equal length, with one HTML
\* block and one CSV block for each non-overlapping <table>...</table>
\* region of the text, in document order; the CSV block joins the cells of a
\* row with commas and the rows with newlines, so that the table of the one
\* row with the cells A and B gives a CSV block containing "A,B"; a text
\* without tables gives two empty lists.
C20_ExtractTables ==
    tablesResult.called =>
        LET html == tablesResult.html_tables
            csv == tablesResult.csv_tables
            n == Len(tablesResult.html_tables)
        IN  /\ Len(csv) = n
            /\ \E at \in [1..n -> Occurrences(parseText, <<"<", "t", "a", "b", "l", "e", ">">>)] :
                  /\ \A k \in 1..n :
                        /\ LitAt(parseText, at[k], html[k])
                        /\ Occurrences(html[k], <<"<", "/", "t", "a", "b", "l", "e", ">">>) = {Len(html[k]) - 8}
                  /\ \A k \in 1..(n - 1) : at[k] + Len(html[k]) <= at[k + 1]
                  /\ \A k \in 0..n :
                        ~RegionWithin(parseText,
                                      IF k = 0 THEN 0 ELSE at[k] + Len(html[k]),
                                      IF k = n THEN Len(parseText) ELSE at[k + 1])
            /\ \A k \in 1..n : CsvOfBlock(csv[k], html[k])
            /\ parseText = SingleRowTable =>
                  n = 1 /\ Contains(csv[1], <<"A", ",", "B">>)
            /\ ~RegionWithin(parseText, 0, Len(parseText)) =>
                  html = <<>> /\ csv = <<>>

\* A text of two tables, of one row and of two: two HTML blocks, and the CSV
\* blocks "A,B" and "N,Q\nx,2".
C20_Witness ==
    /\ tablesResult.called
    /\ parseText = SingleRowTable \o HeaderRowTable
    /\ tablesResult.html_tables = <<SingleRowTable, HeaderRowTable>>
    /\ tablesResult.csv_tables = <<<<"A", ",", "B">>, <<"N", ",", "Q", "\n", "x", ",", "2">>>>

-----------------------------------------------------------------------------
(* Properties of FieldExtractor._extract_field *)

\* The positions of a text where the label stands, letter case ignored.
LabelPositions(text, label) ==
    {p \in 0..(Len(text) - Len(label)) :
        \A i \in 1..Len(label) : ToLower(text[p + i]) = ToLower(label[i])}

\* The trimmed rest of the line that follows the colons and whitespace after
\* the leftmost occurrence of the label.
AfterLeftmostOccurrence(text, label) ==
    LET occurrences == LabelPositions(text, label)
        p == CHOOSE x \in occurrences : \A y \in occurrences : x <= y
        rest == SubSeq(text, p + Len(label) + 1, Len(text))
        values == {i \in 1..Len(rest) : rest[i] \notin {":", " ", "\n", "\t"}}
        from == IF values = {} THEN Len(rest) + 1
                ELSE CHOOSE i \in values : \A j \in values : i <= j
        breaks == {i \in from..Len(rest) : rest[i] = "\n"}
        to == IF breaks = {} THEN Len(rest)
              ELSE (CHOOSE i \in breaks : \A j \in breaks : i <= j) - 1
    IN  Trimmed(SubSeq(rest, from, to))

\* The value in the text that follows a label: the trimmed rest of the line
\* that begins at the first character other than a colon or whitespace; when
\* colons and whitespace alone follow the label, of the line that begins at
\* the last character of them that is no line break, one at least before it.
SeparatedValue(rest) ==
    LET values == {i \in 1..Len(rest) : rest[i] \notin {":", " ", "\n", "\t"}}
        last == {i \in 2..Len(rest) : rest[i] # "\n"}
        from == IF values # {} THEN CHOOSE i \in values : \A j \in values : i <= j
                ELSE CHOOSE i \in last : \A j \in last : j <= i
        breaks == {i \in from..Len(rest) : rest[i] = "\n"}
        to == IF breaks = {} THEN Len(rest)
              ELSE (CHOOSE i \in breaks : \A j \in breaks : i <= j) - 1
    IN  Trimmed(SubSeq(rest, from, to))

\* The statement of C27 as it stands: a value that is found is taken after
\* the leftmost occurrence of the label in the text.
C27_Original ==
    (fieldValue.called /\ fieldValue.value # <<>>
        /\ LabelPositions(fieldText, fieldName) # {}) =>
        fieldValue.value = AfterLeftmostOccurrence(fieldText, fieldName)

\* C27: the value of a field is taken after the leftmost occurrence of the
\* label, letter case ignored and no word boundary required, that is
\* followed by colons or whitespace and then by a character other than a
\* line break; the colons and whitespace may span line breaks.  For the field
\* Total and a text whose line "Subtotal: 3" precedes "Total: 4" the value is
\* 3, and for "Total:" followed by line breaks alone the value is the
\* content of the next line that is not blank.
C27_LeftmostSeparatedLabel ==
    fieldValue.called =>
        LET separated ==
                {p \in LabelPositions(fieldText, fieldName) :
                    \E k \in 1..Len(fieldText) :
                        LabelMatch(fieldText, fieldName, p, k)}
        IN  /\ separated # {} =>
                  LET p == CHOOSE x \in separated : \A y \in separated : x <= y
                  IN  fieldValue.value
                          = SeparatedValue(SubSeq(fieldText, p + Len(fieldName) + 1,
                                                  Len(fieldText)))
            /\ (fieldName = NameTotal
                  /\ fieldText = <<"S", "u", "b", "t", "o", "t", "a", "l", ":", " ", "3", "\n">> \o <<"T", "o", "t", "a", "l", ":", " ", "4", "\n">>) =>
                  fieldValue.value = <<"3">>
            /\ (fieldName = NameTotal
                  /\ fieldText = <<"T", "o", "t", "a", "l", ":", "\n", "\n">> \o <<" ", "9", " ", "\n">>) =>
                  fieldValue.value = <<"9">>

\* The label is followed by a colon and two line breaks, and the next line
\* is " 9 ": the value is 9.
C27_Witness ==
    /\ fieldValue.called
    /\ fieldName = NameTotal
    /\ fieldText = <<"T", "o", "t", "a", "l", ":", "\n", "\n">> \o <<" ", "9", " ", "\n">>
    /\ fieldValue.value = <<"9">>

-----------------------------------------------------------------------------
(* Properties of validators.sanitize_filename *)

\* C24: for every filename, the result of sanitize_filename holds neither
\* the substring ".." nor any of the characters / \ NUL < > | * ? and the
\* double quote.
C24_SanitizedFilename ==
    sanitizeResult.called =>
        /\ ~Contains(sanitizeResult.filename, <<".", ".">>)
        /\ \A i \in 1..Len(sanitizeResult.filename) :
              sanitizeResult.filename[i]
                  \notin {"/", "\\", "u0000", "<", ">", "|", "*", "?", "\""}

-----------------------------------------------------------------------------
(* Properties of SchemaExtractor.validate_schema *)

\* The entries of a schema that lack a type.
Untyped(schema_arg) ==
    {key \in DOMAIN schema_arg :
        \A k \in DOMAIN schema_arg[key] : k # "type"}

\* C22: validate_schema returns true if and only if every entry of the
\* schema has a type: a schema with an entry that lacks its type is
\* rejected, whether or not that entry has a pattern.
C22_ValidateSchema ==
    schemaValid.called =>
        /\ schemaValid.valid <=> Untyped(schemaArg) = {}
        /\ (\E key \in DOMAIN schemaArg : DOMAIN schemaArg[key] = {"pattern"}) =>
              ~schemaValid.valid
        /\ (\E key \in DOMAIN schemaArg : DOMAIN schemaArg[key] = {}) =>
              ~schemaValid.valid

\* A schema of two typed entries and one that has a pattern and no type is
\* rejected.
C22_Witness ==
    /\ schemaValid.called
    /\ Cardinality(DOMAIN schemaArg) = 3
    /\ Cardinality(Untyped(schemaArg)) = 1
    /\ \A key \in Untyped(schemaArg) : DOMAIN schemaArg[key] = {"pattern"}
    /\ ~schemaValid.valid

-----------------------------------------------------------------------------
(* Properties of OutputParser.parse *)

\* A page delimiter stands at position p of the text and ends at position e.
DelimiterAt(text, p, e) ==
    /\ LitAt(text, p, <<"-", "-", "-", " ", "P", "a", "g", "e", " ">>)
    /\ e - 4 > p + 9
    /\ \A i \in (p + 10)..(e - 4) : text[i] \in {"0", "1", "2", "3", "4", "5", "6", "7", "8", "9"}
    /\ LitAt(text, e - 4, <<" ", "-", "-", "-">>)

\* The positions where the delimiters of a text begin, and where they end.
DelimiterStarts(text) ==
    {p \in 0..Len(text) : \E e \in p..Len(text) : DelimiterAt(text, p, e)}
DelimiterEnds(text) ==
    {e \in 0..Len(text) : \E p \in 0..e : DelimiterAt(text, p, e)}

\* The part of a text from position s to the next delimiter, or to its end.
SegmentFrom(text, s) ==
    LET next == {p \in DelimiterStarts(text) : p >= s}
    IN  SubSeq(text, s + 1,
               IF next = {} THEN Len(text)
               ELSE CHOOSE p \in next : \A q \in next : p <= q)

\* C23: parse returns no page for the empty text, one page for a text that
\* is not empty and has no page delimiter, and otherwise the pages in
\* document order, as the delimiters split the text.
C23_Pages ==
    pagesResult.called =>
        LET pages == pagesResult.pages
            starts == {s \in {0} \cup DelimiterEnds(parseText) :
                          ~BlankText(SegmentFrom(parseText, s))}
        IN  /\ parseText = <<>> => pages = <<>>
            /\ (parseText # <<>> /\ DelimiterStarts(parseText) = {}) =>
                  Len(pages) = 1
            /\ DelimiterStarts(parseText) # {} =>
                  /\ Len(pages) = Cardinality(starts)
                  /\ \E at \in [1..Len(pages) -> starts] :
                        /\ \A k \in 1..Len(pages) :
                              pages[k] = SegmentFrom(parseText, at[k])
                        /\ \A k \in 1..(Len(pages) - 1) : at[k] < at[k + 1]

\* A text of two delimiters, each followed by text: two pages, the texts
\* after the delimiters, in their order.
C23_Witness ==
    /\ pagesResult.called
    /\ Cardinality(DelimiterStarts(parseText)) = 2
    /\ Len(pagesResult.pages) = 2
    /\ pagesResult.pages[1] # pagesResult.pages[2]

-----------------------------------------------------------------------------
(* Properties of OutputParser.extract_equations *)

\* The positions of the dollar signs of a text.
Dollars(text) == {i \in 1..Len(text) : text[i] = "$"}

\* The text holds one display equation and no other dollar sign: two dollar
\* signs, a content, and two dollar signs.
OneDisplayEquation(text) ==
    \E i \in 1..Len(text), j \in 1..Len(text) :
        /\ i + 2 < j
        /\ Dollars(text) = {i, i + 1, j, j + 1}

\* C21: extract_equations returns the display equations $$...$$ and the
\* inline equations $...$, none empty, in source order, and counts no span
\* twice: no character of the text belongs to two of the equations it
\* returns, so that a text of one display equation gives one entry.
C21_Equations ==
    equationsResult.called =>
        LET eqs == equationsResult.equations
        IN  /\ \A k \in 1..Len(eqs) :
                  /\ 0 <= eqs[k].start /\ eqs[k].end <= Len(parseText)
                  /\ eqs[k].content # <<>>
                  /\ eqs[k].kind = "display" =>
                        /\ eqs[k].end - eqs[k].start = Len(eqs[k].content) + 4
                        /\ {eqs[k].start + 1, eqs[k].start + 2, eqs[k].end - 1,
                            eqs[k].end} \subseteq Dollars(parseText)
                        /\ LitAt(parseText, eqs[k].start + 2, eqs[k].content)
                  /\ eqs[k].kind = "inline" =>
                        /\ eqs[k].end - eqs[k].start = Len(eqs[k].content) + 2
                        /\ Dollars(parseText)
                              \cap (eqs[k].start + 1)..eqs[k].end
                              = {eqs[k].start + 1, eqs[k].end}
                        /\ LitAt(parseText, eqs[k].start + 1, eqs[k].content)
            /\ \A k \in 1..(Len(eqs) - 1) : eqs[k].start < eqs[k + 1].start
            /\ \A k \in 1..Len(eqs), l \in 1..Len(eqs) :
                  k # l =>
                      (eqs[k].start + 1)..eqs[k].end
                          \cap (eqs[l].start + 1)..eqs[l].end = {}
            /\ OneDisplayEquation(parseText) =>
                  Len(eqs) = 1 /\ eqs[1].kind = "display"

\* A text of one display equation and nothing else gives the one entry a+b.
C21_Witness ==
    /\ equationsResult.called
    /\ OneDisplayEquation(parseText)
    /\ Len(equationsResult.equations) = 1
    /\ equationsResult.equations[1].content = <<"a", "+", "b">>

-----------------------------------------------------------------------------
(* Properties of get_api_client, under SpecClient *)

\* The latest of the first k calls that made a client: the first call, or
\* one with a base_url.
LatestCreating(k) ==
    CHOOSE j \in 1..k :
        /\ j = 1 \/ getCalls[j].base_url # None
        /\ \A i \in (j + 1)..k : getCalls[i].base_url = None

\* C30: a get_api_client call without base_url returns the instance made by
\* the latest call that made one (the first call, or the latest call with a
\* base_url) and leaves it as it was made, whatever api_key it passes; a call
\* with a base_url makes a new client, and the global holds what the latest
\* call returned.
C30_GetApiClient ==
    /\ \A k \in 1..Len(getCalls) :
          LET call == getCalls[k]
              made == getCalls[LatestCreating(k)]
          IN  /\ call.result # None
              /\ call.result.id \in 1..Len(clients)
              /\ call.result = made.result
              /\ clients[call.result.id]
                    = OCRAPIClient(environ, made.base_url, made.api_key)
              /\ call.base_url # None =>
                    \A j \in 1..(k - 1) : getCalls[j].result # call.result
    /\ getCalls # <<>> => _api_client = getCalls[Len(getCalls)].result
    /\ getCalls = <<>> => _api_client = None

\* A second call makes a client of its base_url; a third, with another
\* api_key and no base_url, returns that client, its api_key the second
\* call's.
C30_Witness ==
    /\ Len(getCalls) = 3
    /\ getCalls[2].base_url = Str("http://ocr:9000")
    /\ getCalls[2].api_key = Str("key-1")
    /\ getCalls[3].base_url = None
    /\ getCalls[3].api_key = Str("key-2")
    /\ getCalls[3].result = [id |-> 2]
    /\ getCalls[1].result = [id |-> 1]
    /\ clients[2].api_key = Str("key-1")
    /\ _api_client = [id |-> 2]

-----------------------------------------------------------------------------
(* Properties of process_document, under SpecOcr *)

\* C29: when a POST /ocr call has ended, the temporary file made for it, if
\* one was made, does not exist, however the call ended; and a call with an
\* unsupported extension has ended with status 400 and no temporary file
\* made.
C29_TempFileCleanedUp ==
    \A r \in 1..MaxRequests :
        requests[r].pc = "done" =>
            /\ requests[r].created => TempFile(r) \notin tmpFiles
            /\ requests[r].extension \notin supported =>
                  requests[r].status = 400 /\ ~requests[r].created

====
